---- MODULE Spec2Model ----
(***************************************************************************)
(* A model of the draughts engine: the move generator and move application *)
(* of ai.utils, the position-mutating analysis helpers of ai.safety and    *)
(* ai.tactics, and the transposition table of ai.tt with the table probe   *)
(* of negamax.                                                             *)
(***************************************************************************)
EXTENDS Integers, Sequences, FiniteSets, TLC

\* ------------------------------------------------------------------------
\* Board constants (constants.js)
\* ------------------------------------------------------------------------
BOARD_SIZE == 10

NONE == 0
WHITE == 1
BLACK == 2
WHITE_KING == 3
BLACK_KING == 4

PLAYER_WHITE == 1
PLAYER_BLACK == 2

KING_MOVES ==
    << [dy |-> -1, dx |-> -1], [dy |-> -1, dx |-> 1],
       [dy |-> 1, dx |-> -1], [dy |-> 1, dx |-> 1] >>

WHITE_MOVES == << [dy |-> -1, dx |-> -1], [dy |-> -1, dx |-> 1] >>

BLACK_MOVES == << [dy |-> 1, dx |-> -1], [dy |-> 1, dx |-> 1] >>

isDarkSquare(row, col) == (row + col) % 2 = 1

Rows == 0 .. (BOARD_SIZE - 1)

Squares == Rows \X Rows

\* ------------------------------------------------------------------------
\* Bounds of the explored positions
\* ------------------------------------------------------------------------
\* at most this many pieces of the side not to move in an initial position
MaxEnemies == 4
\* at most this many pieces of the side to move in an initial position
MaxOwn == 2

\* ------------------------------------------------------------------------
\* Predicates of ai.utils
\* ------------------------------------------------------------------------
isValidSquare(row, col) ==
    row >= 0 /\ row < BOARD_SIZE /\ col >= 0 /\ col < BOARD_SIZE

isPieceOfCurrentPlayer(piece, player) ==
    IF player = PLAYER_WHITE
    THEN piece = WHITE \/ piece = WHITE_KING
    ELSE piece = BLACK \/ piece = BLACK_KING

isOpponentPiece(piece, player) ==
    IF player = PLAYER_WHITE
    THEN piece = BLACK \/ piece = BLACK_KING
    ELSE piece = WHITE \/ piece = WHITE_KING

isPlayerPiece(piece, player) ==
    IF player = PLAYER_WHITE
    THEN piece = WHITE \/ piece = WHITE_KING
    ELSE piece = BLACK \/ piece = BLACK_KING

shouldPromote(piece, row) ==
    (piece = WHITE /\ row = 0) \/ (piece = BLACK /\ row = BOARD_SIZE - 1)

getPieceValue(piece) ==
    IF piece = WHITE \/ piece = BLACK THEN 100
    ELSE IF piece = WHITE_KING \/ piece = BLACK_KING THEN 450
    ELSE 0

Opponent(player) == IF player = PLAYER_WHITE THEN PLAYER_BLACK ELSE PLAYER_WHITE

IsKingPiece(piece) == piece = WHITE_KING \/ piece = BLACK_KING

\* ------------------------------------------------------------------------
\* findCaptureSequences
\* ------------------------------------------------------------------------
NoSquare == << -1, -1 >>

\* no move: null
NoMove == [from |-> NoSquare, to |-> NoSquare, captures |-> << >>]

\* the scan of lines 115-133: the first occupied square from (row, col) on
RECURSIVE FirstPiece(_, _, _, _)
FirstPiece(pcs, row, col, dir) ==
    IF ~isValidSquare(row, col) THEN NoSquare
    ELSE IF pcs[<<row, col>>] # NONE THEN <<row, col>>
    ELSE FirstPiece(pcs, row + dir.dy, col + dir.dx, dir)

\* the landing loop of lines 137-163: the run of empty squares from (row, col)
RECURSIVE LandingSquares(_, _, _, _)
LandingSquares(pcs, row, col, dir) ==
    IF isValidSquare(row, col) /\ pcs[<<row, col>>] = NONE
    THEN << <<row, col>> >> \o LandingSquares(pcs, row + dir.dy, col + dir.dx, dir)
    ELSE << >>

InSeq(x, s) == \E i \in 1 .. Len(s) : s[i] = x

\* a flying king's jumps in one direction, in the order the loop makes them
KingJumpsMutant(pcs, pos, dir, capturedSoFar, player) ==
    LET enemyPos == FirstPiece(pcs, pos[1] + dir.dy, pos[2] + dir.dx, dir)
        lands == LandingSquares(pcs, enemyPos[1] + dir.dy, enemyPos[2] + dir.dx, dir)
    IN  IF enemyPos # NoSquare /\ isOpponentPiece(pcs[enemyPos], player)
           /\ ~InSeq(enemyPos, capturedSoFar) /\ Len(lands) > 0
        THEN << [enemy |-> enemyPos, land |-> lands[1]] >>
        ELSE << >>

KingJumps(pcs, pos, dir, capturedSoFar, player) ==
    LET enemyPos == FirstPiece(pcs, pos[1] + dir.dy, pos[2] + dir.dx, dir)
        lands == LandingSquares(pcs, enemyPos[1] + dir.dy, enemyPos[2] + dir.dx, dir)
    IN  IF enemyPos # NoSquare /\ isOpponentPiece(pcs[enemyPos], player)
           /\ ~InSeq(enemyPos, capturedSoFar)
        THEN [i \in 1 .. Len(lands) |-> [enemy |-> enemyPos, land |-> lands[i]]]
        ELSE << >>

\* a man's jump in one direction
ManJumps(pcs, pos, dir, capturedSoFar, player) ==
    LET jumpOverPos == <<pos[1] + dir.dy, pos[2] + dir.dx>>
        landPos == <<pos[1] + 2 * dir.dy, pos[2] + 2 * dir.dx>>
    IN  IF isValidSquare(landPos[1], landPos[2])
           /\ pcs[landPos] = NONE
           /\ isOpponentPiece(pcs[jumpOverPos], player)
           /\ ~InSeq(jumpOverPos, capturedSoFar)
        THEN << [enemy |-> jumpOverPos, land |-> landPos] >>
        ELSE << >>

\* every jump the loop over dirs (lines 112-199) finds from pos, in loop order
Jumps(pcs, pos, capturedSoFar, player) ==
    LET J(d) == IF IsKingPiece(pcs[pos])
                THEN KingJumps(pcs, pos, KING_MOVES[d], capturedSoFar, player)
                ELSE ManJumps(pcs, pos, KING_MOVES[d], capturedSoFar, player)
    IN  J(1) \o J(2) \o J(3) \o J(4)

\* the capture made on a copy of the grid (lines 144-147, 180-183)
JumpOnCopy(pcs, pos, jump) ==
    LET p1 == [pcs EXCEPT ![pos] = NONE]
        p2 == [p1 EXCEPT ![jump.enemy] = NONE]
    IN  [p2 EXCEPT ![jump.land] = pcs[pos]]

RECURSIVE findCaptureSequences(_, _, _, _, _, _, _)
RECURSIVE ContinueJumps(_, _, _, _, _, _, _, _, _)

\* the sequences pushed by the recursive calls made for jumps[i..]
ContinueJumps(jumps, i, pcs, pos, path, capturedSoFar, visited, player, depth) ==
    IF i > Len(jumps) THEN << >>
    ELSE findCaptureSequences(JumpOnCopy(pcs, pos, jumps[i]), jumps[i].land,
                              Append(path, pos),
                              Append(capturedSoFar, jumps[i].enemy),
                              visited, player, depth + 1)
         \o ContinueJumps(jumps, i + 1, pcs, pos, path, capturedSoFar,
                          visited, player, depth)

\* the sequences one call pushes onto `sequences`, in push order
findCaptureSequences(pcs, currentPos, path, capturedSoFar, visitedPositions, player, recursionDepth) ==
    IF recursionDepth > 20 THEN << >>
    ELSE IF currentPos \in visitedPositions THEN << >>
    ELSE LET visited == visitedPositions \cup {currentPos}
             jumps == Jumps(pcs, currentPos, capturedSoFar, player)
             foundJump == Len(jumps) > 0
         IN  ContinueJumps(jumps, 1, pcs, currentPos, path, capturedSoFar,
                           visited, player, recursionDepth)
             \o (IF ~foundJump /\ Len(capturedSoFar) > 0
                 THEN << [from |-> IF Len(path) > 0 THEN path[1] ELSE currentPos,
                          to |-> currentPos,
                          captures |-> capturedSoFar] >>
                 ELSE << >>)

\* ------------------------------------------------------------------------
\* getAvailableCaptures, generateMoves
\* ------------------------------------------------------------------------
\* the squares in the order of the nested loops over r and c
SquareAt(i) == << (i - 1) \div BOARD_SIZE, (i - 1) % BOARD_SIZE >>

IndexOf(sq) == sq[1] * BOARD_SIZE + sq[2] + 1

\* the squares holding a piece of player, as the loops over r and c meet them
RECURSIVE InLoopOrder(_)
InLoopOrder(idxs) ==
    IF idxs = {} THEN << >>
    ELSE LET first == CHOOSE i \in idxs : \A j \in idxs : i <= j
         IN  << SquareAt(first) >> \o InLoopOrder(idxs \ {first})

PlayerSquares(pcs, player) ==
    InLoopOrder({ IndexOf(sq) : sq \in { s \in Squares : isPieceOfCurrentPlayer(pcs[s], player) } })

RECURSIVE CollectCaptures(_, _, _, _)
CollectCaptures(pcs, player, sqs, i) ==
    IF i > Len(sqs) THEN << >>
    ELSE findCaptureSequences(pcs, sqs[i], << >>, << >>, {}, player, 0)
         \o CollectCaptures(pcs, player, sqs, i + 1)

\* everything findCaptureSequences pushed onto allCaptures (lines 68-84)
AllCaptures(pcs, player) ==
    CollectCaptures(pcs, player, PlayerSquares(pcs, player), 1)

RECURSIVE MaxCaptureLength(_)
MaxCaptureLength(seqs) ==
    IF seqs = << >> THEN 0
    ELSE LET rest == MaxCaptureLength(Tail(seqs))
             n == Len(Head(seqs).captures)
         IN  IF n > rest THEN n ELSE rest

\* lines 87-93: a stable descending sort, then the filter on the first length
FilterMaximalMutant(allCaps) == allCaps

FilterMaximal(allCaps) ==
    IF Len(allCaps) > 0
    THEN LET maxLength == MaxCaptureLength(allCaps)
             IsMax(m) == Len(m.captures) = maxLength
         IN  SelectSeq(allCaps, IsMax)
    ELSE << >>

getAvailableCaptures(pcs, player) == FilterMaximal(AllCaptures(pcs, player))

RECURSIVE KingSlides(_, _, _, _, _)
KingSlides(pcs, from, row, col, dir) ==
    IF isValidSquare(row, col) /\ pcs[<<row, col>>] = NONE /\ isDarkSquare(row, col)
    THEN << [from |-> from, to |-> <<row, col>>, captures |-> << >>] >>
         \o KingSlides(pcs, from, row + dir.dy, col + dir.dx, dir)
    ELSE << >>

ManStep(pcs, from, dir) ==
    LET nr == from[1] + dir.dy
        nc == from[2] + dir.dx
    IN  IF isValidSquare(nr, nc) /\ pcs[<<nr, nc>>] = NONE /\ isDarkSquare(nr, nc)
        THEN << [from |-> from, to |-> <<nr, nc>>, captures |-> << >>] >>
        ELSE << >>

addNormalMovesForPiece(pcs, player, pos) ==
    IF IsKingPiece(pcs[pos])
    THEN KingSlides(pcs, pos, pos[1] + KING_MOVES[1].dy, pos[2] + KING_MOVES[1].dx, KING_MOVES[1])
         \o KingSlides(pcs, pos, pos[1] + KING_MOVES[2].dy, pos[2] + KING_MOVES[2].dx, KING_MOVES[2])
         \o KingSlides(pcs, pos, pos[1] + KING_MOVES[3].dy, pos[2] + KING_MOVES[3].dx, KING_MOVES[3])
         \o KingSlides(pcs, pos, pos[1] + KING_MOVES[4].dy, pos[2] + KING_MOVES[4].dx, KING_MOVES[4])
    ELSE LET dirs == IF player = PLAYER_WHITE THEN WHITE_MOVES ELSE BLACK_MOVES
         IN  ManStep(pcs, pos, dirs[1]) \o ManStep(pcs, pos, dirs[2])

RECURSIVE CollectNormalMoves(_, _, _, _)
CollectNormalMoves(pcs, player, sqs, i) ==
    IF i > Len(sqs) THEN << >>
    ELSE addNormalMovesForPiece(pcs, player, sqs[i])
         \o CollectNormalMoves(pcs, player, sqs, i + 1)

generateMoves(pcs, player) ==
    LET captures == getAvailableCaptures(pcs, player)
    IN  IF Len(captures) > 0 THEN captures
        ELSE CollectNormalMoves(pcs, player, PlayerSquares(pcs, player), 1)

\* ------------------------------------------------------------------------
\* makeMove
\* ------------------------------------------------------------------------
RECURSIVE RemoveCaptured(_, _, _)
RemoveCaptured(pcs, captures, i) ==
    IF i > Len(captures) THEN pcs
    ELSE RemoveCaptured([pcs EXCEPT ![captures[i]] = NONE], captures, i + 1)

makeMove(pcs, player, m) ==
    LET piece == pcs[m.from]
        p1 == [pcs EXCEPT ![m.from] = NONE]
        p2 == [p1 EXCEPT ![m.to] = piece]
        p3 == RemoveCaptured(p2, m.captures, 1)
        p4 == IF shouldPromote(piece, m.to[1])
              THEN [p3 EXCEPT ![m.to] = IF piece = WHITE THEN WHITE_KING ELSE BLACK_KING]
              ELSE p3
    IN  [pieces |-> p4,
         currentPlayer |-> IF player = PLAYER_WHITE THEN PLAYER_BLACK ELSE PLAYER_WHITE]

\* ------------------------------------------------------------------------
\* countAttackers (ai.safety), detectPinsAndSkewers (ai.tactics)
\* ------------------------------------------------------------------------
CapturesSquare(m, sq) == InSeq(sq, m.captures)

\* the grid while the dummy piece stands on (row, col), lines 214-216
GridWithDummy(pcs, sq, attackingPlayer) ==
    [pcs EXCEPT ![sq] = IF attackingPlayer = PLAYER_WHITE THEN BLACK ELSE WHITE]

countAttackers(pcs, sq, attackingPlayer) ==
    LET captures == getAvailableCaptures(GridWithDummy(pcs, sq, attackingPlayer),
                                         attackingPlayer)
        Hits(m) == CapturesSquare(m, sq)
    IN  Len(SelectSeq(captures, Hits))

\* the grid countAttackers leaves behind: the dummy is replaced by the original
GridAfterCountAttackers(pcs, sq, attackingPlayer) ==
    [GridWithDummy(pcs, sq, attackingPlayer) EXCEPT ![sq] = pcs[sq]]

RECURSIVE MaxValue(_, _)
MaxValue(pcs, sqs) ==
    IF sqs = << >> THEN 0
    ELSE LET rest == MaxValue(pcs, Tail(sqs))
             v == getPieceValue(pcs[Head(sqs)])
         IN  IF Len(sqs) = 1 THEN v ELSE IF v > rest THEN v ELSE rest

\* the pins pushed for the captures found after the piece on sq was taken off
RECURSIVE PinsOfCaptures(_, _, _, _, _)
PinsOfCaptures(pcs, captures, i, sq, piece) ==
    IF i > Len(captures) THEN << >>
    ELSE LET cap == captures[i]
             NotSq(t) == t[1] # sq[1] \/ t[2] # sq[2]
             exposedPieces == SelectSeq(cap.captures, NotSq)
             pinnedValue == getPieceValue(piece)
             exposedValue == MaxValue(pcs, exposedPieces)
         IN  (IF Len(exposedPieces) > 0 /\ exposedValue > pinnedValue
              THEN << [pinned |-> sq, exposed |-> exposedPieces[1],
                       exposedValue |-> exposedValue, pinner |-> cap.from] >>
              ELSE << >>)
             \o PinsOfCaptures(pcs, captures, i + 1, sq, piece)

\* the loop of lines 324-359 over the friendly pieces sqs[i..]: testPos shares
\* the grid of the position, so each piece is taken off the position's own grid
RECURSIVE DetectPinsFrom(_, _, _, _)
DetectPinsFrom(pcs, player, sqs, i) ==
    IF i > Len(sqs) THEN [pieces |-> pcs, pins |-> << >>]
    ELSE LET sq == sqs[i]
             grid == [pcs EXCEPT ![sq] = NONE]
             captures == getAvailableCaptures(grid, Opponent(player))
             here == PinsOfCaptures(grid, captures, 1, sq, pcs[sq])
             rest == DetectPinsFrom(grid, player, sqs, i + 1)
         IN  [pieces |-> rest.pieces, pins |-> here \o rest.pins]

detectPinsAndSkewers(pcs, player) ==
    DetectPinsFrom(pcs, player, PlayerSquares(pcs, player), 1)

\* ------------------------------------------------------------------------
\* Move safety (ai.safety): staticExchangeEvaluation, isMoveReallySafe
\* ------------------------------------------------------------------------
\* lines 34 and 81: afterMove.currentPlayer = position.currentPlayer, the side
\* whose captures are listed after the move
SwitchBack(player) == player

RECURSIVE SumValues(_, _)
SumValues(pcs, sqs) ==
    IF sqs = << >> THEN 0
    ELSE getPieceValue(pcs[Head(sqs)]) + SumValues(pcs, Tail(sqs))

\* lines 91-100: the first recapture whose attacker has the least value
RECURSIVE LeastValuableAttacker(_, _, _, _)
LeastValuableAttacker(pcs, recaptures, i, best) ==
    IF i > Len(recaptures) THEN best
    ELSE LET attackerValue == getPieceValue(pcs[recaptures[i].from])
         IN  IF attackerValue < getPieceValue(pcs[best.from])
             THEN LeastValuableAttacker(pcs, recaptures, i + 1, recaptures[i])
             ELSE LeastValuableAttacker(pcs, recaptures, i + 1, best)

RECURSIVE staticExchangeEvaluation(_, _, _)
staticExchangeEvaluation(pcs, player, m) ==
    IF Len(m.captures) = 0 THEN 0
    ELSE LET gain == SumValues(pcs, m.captures)
             afterMove == makeMove(pcs, player, m).pieces
             side == SwitchBack(player)
             Hits(recap) == CapturesSquare(recap, m.to)
             recaptures == SelectSeq(getAvailableCaptures(afterMove, side), Hits)
         IN  IF Len(recaptures) = 0 THEN gain
             ELSE LET bestRecapture ==
                          LeastValuableAttacker(afterMove, recaptures, 2, recaptures[1])
                      ourPieceValue == getPieceValue(pcs[m.from])
                  IN  gain - ourPieceValue
                      - staticExchangeEvaluation(afterMove, side, bestRecapture)

Neighbour(sq, dir) == << sq[1] + dir.dy, sq[2] + dir.dx >>

getPieceCapturesFrom(pcs, piecePos) ==
    LET player == IF pcs[piecePos] = WHITE \/ pcs[piecePos] = WHITE_KING
                  THEN PLAYER_WHITE ELSE PLAYER_BLACK
    IN  findCaptureSequences(pcs, piecePos, << >>, << >>, {}, player, 0)

\* lines 391-415: one diagonal, 1 when the first piece met within 8 steps is
\* a king of attackingPlayer and the square behind (row, col) is empty
RECURSIVE LongRangeAttackerOn(_, _, _, _, _, _)
LongRangeAttackerOn(pcs, sq, at, dir, distance, attackingPlayer) ==
    IF ~isValidSquare(at[1], at[2]) \/ distance > 8 THEN 0
    ELSE IF pcs[at] # NONE
    THEN IF \/ (attackingPlayer = PLAYER_WHITE /\ pcs[at] = WHITE_KING)
            \/ (attackingPlayer = PLAYER_BLACK /\ pcs[at] = BLACK_KING)
         THEN LET land == << sq[1] - dir.dy, sq[2] - dir.dx >>
              IN  IF isValidSquare(land[1], land[2]) /\ pcs[land] = NONE
                  THEN 1 ELSE 0
         ELSE 0
    ELSE LongRangeAttackerOn(pcs, sq, Neighbour(at, dir), dir, distance + 1,
                             attackingPlayer)

RECURSIVE SumOver(_, _)
SumOver(f, i) == IF i > Len(f) THEN 0 ELSE f[i] + SumOver(f, i + 1)

countLongRangeAttackers(pcs, sq, attackingPlayer) ==
    SumOver([d \in 1 .. Len(KING_MOVES) |->
                LongRangeAttackerOn(pcs, sq, Neighbour(sq, KING_MOVES[d]),
                                    KING_MOVES[d], 1, attackingPlayer)], 1)

\* lines 430-444: one diagonal, 1 when the first piece met is a king of player
RECURSIVE LongRangeDefenderOn(_, _, _, _)
LongRangeDefenderOn(pcs, at, dir, player) ==
    IF ~isValidSquare(at[1], at[2]) THEN 0
    ELSE IF pcs[at] # NONE
    THEN IF \/ (player = PLAYER_WHITE /\ pcs[at] = WHITE_KING)
            \/ (player = PLAYER_BLACK /\ pcs[at] = BLACK_KING)
         THEN 1 ELSE 0
    ELSE LongRangeDefenderOn(pcs, Neighbour(at, dir), dir, player)

countLongRangeDefenders(pcs, sq, player) ==
    SumOver([d \in 1 .. Len(KING_MOVES) |->
                LongRangeDefenderOn(pcs, Neighbour(sq, KING_MOVES[d]),
                                    KING_MOVES[d], player)], 1)

canDefend(defender, target) ==
    LET rowDiff == IF defender[1] >= target[1] THEN defender[1] - target[1]
                   ELSE target[1] - defender[1]
        colDiff == IF defender[2] >= target[2] THEN defender[2] - target[2]
                   ELSE target[2] - defender[2]
    IN  rowDiff = 1 /\ colDiff = 1

countDefenders(pcs, sq, player) ==
    SumOver([d \in 1 .. Len(KING_MOVES) |->
                LET n == Neighbour(sq, KING_MOVES[d])
                IN  IF /\ isValidSquare(n[1], n[2])
                       /\ isPlayerPiece(pcs[n], player)
                       /\ canDefend(n, sq)
                    THEN 1 ELSE 0], 1)
    + countLongRangeDefenders(pcs, sq, player)

isProtected(pcs, sq, player) ==
    LET opponent == IF player = PLAYER_WHITE THEN PLAYER_BLACK ELSE PLAYER_WHITE
        Valid1(d) == LET n == Neighbour(sq, KING_MOVES[d])
                     IN  isValidSquare(n[1], n[2])
        Hits(cap) == CapturesSquare(cap, sq)
        protectors ==
            SumOver([d \in 1 .. Len(KING_MOVES) |->
                        IF Valid1(d) /\ isPlayerPiece(pcs[Neighbour(sq, KING_MOVES[d])], player)
                        THEN 1 ELSE 0], 1)
        adjacent ==
            SumOver([d \in 1 .. Len(KING_MOVES) |->
                        LET n == Neighbour(sq, KING_MOVES[d])
                        IN  IF /\ Valid1(d)
                               /\ ~isPlayerPiece(pcs[n], player)
                               /\ isPlayerPiece(pcs[n], opponent)
                               /\ Len(SelectSeq(getPieceCapturesFrom(pcs, n), Hits)) > 0
                            THEN 1 ELSE 0], 1)
        nAttackers == adjacent + countLongRangeAttackers(pcs, sq, opponent)
    IN  protectors >= nAttackers /\ protectors > 0

evaluateExchange(pcs, sq) ==
    LET piece == pcs[sq]
        player == IF piece = WHITE \/ piece = WHITE_KING
                  THEN PLAYER_WHITE ELSE PLAYER_BLACK
        opponent == IF player = PLAYER_WHITE THEN PLAYER_BLACK ELSE PLAYER_WHITE
        ourValue == getPieceValue(piece)
        defenders == countDefenders(pcs, sq, player)
        nAttackers == countAttackers(pcs, sq, opponent)
    IN  IF piece = NONE THEN 0
        ELSE IF nAttackers = 0 THEN 0
        ELSE IF defenders >= nAttackers THEN 0
        ELSE -ourValue

RECURSIVE MaxGain(_, _, _)
MaxGain(pcs, recaptures, i) ==
    IF i > Len(recaptures) THEN 0
    ELSE LET gain == SumValues(pcs, recaptures[i].captures)
             rest == MaxGain(pcs, recaptures, i + 1)
         IN  IF gain > rest THEN gain ELSE rest

evaluateBestRecapture(pcs, player) ==
    LET opponent == IF player = PLAYER_WHITE THEN PLAYER_BLACK ELSE PLAYER_WHITE
    IN  MaxGain(pcs, getAvailableCaptures(pcs, opponent), 1)

\* lines 25-61; the comparisons with -pieceValue / 2 and pieceValue * 0.8 are
\* made on integers
isMoveReallySafe(pcs, player, m) ==
    IF Len(m.captures) > 0
    THEN staticExchangeEvaluation(pcs, player, m) >= 0
    ELSE LET afterMove == makeMove(pcs, player, m).pieces
             side == SwitchBack(player)
             responses == getAvailableCaptures(afterMove, side)
             Hits(response) == CapturesSquare(response, m.to)
             movingPieceCanBeCaptured == Len(SelectSeq(responses, Hits)) > 0
             pieceValue == getPieceValue(pcs[m.from])
         IN  IF Len(responses) = 0 THEN TRUE
             ELSE IF ~movingPieceCanBeCaptured THEN TRUE
             ELSE IF isProtected(afterMove, m.to, player)
             THEN 2 * evaluateExchange(afterMove, m.to) >= -pieceValue
             ELSE 10 * evaluateBestRecapture(afterMove, side) >= 8 * pieceValue

\* ------------------------------------------------------------------------
\* Transposition table (ai.tt)
\* ------------------------------------------------------------------------
EXACT == 0
LOWER_BOUND == 1
UPPER_BOUND == 2

EntryTypes == {EXACT, LOWER_BOUND, UPPER_BOUND}

\* Bounds of the explored tables
\* position keys 1 .. NumKeys
NumKeys == 4
\* search depths stored are 1 .. MaxDepth
MaxDepth == 2
\* scores stored are -MaxScore and MaxScore
MaxScore == 1
\* accessCount is followed up to MaxAccess
MaxAccess == 5
\* entry ages are followed up to MaxAge
MaxAge == 2
\* createTranspositionTable is called with maxSize in 1 .. MaxCapacity
MaxCapacity == 4

Keys == 1 .. NumKeys

\* the key the search probes and whose stored results vary freely; the other
\* keys hold results of other positions, which fill the table
SearchKeys == {1}

Depths == 1 .. MaxDepth

Scores == {-MaxScore, MaxScore}

\* JavaScript's Infinity: above every score
Infinity == MaxScore + 1

AlphaBeta == {-Infinity, -MaxScore, MaxScore, Infinity}

\* best moves: 0 is null, the others stand for moves of the position
BestMoves == {0, 1, 2}

\* the table is a Map: its entries in insertion order, each with its key
HasKey(tbl, key) == \E i \in 1 .. Len(tbl) : tbl[i].key = key

IndexOfKey(tbl, key) == CHOOSE i \in 1 .. Len(tbl) : tbl[i].key = key

EntryOf(tbl, key) == tbl[IndexOfKey(tbl, key)]

\* the store calls explored on table tbl. A fail-high result (LOWER_BOUND)
\* carries the high score, a fail-low result (UPPER_BOUND) the low one, and
\* the best move goes with the score. A key outside SearchKeys gets one
\* result, stored while the key is absent, the keys in order.
StoreCalls(tbl) ==
    { c \in [key : Keys, depth : Depths, value : Scores, type : EntryTypes,
             bestMove : BestMoves \ {0}] :
        /\ c.type = LOWER_BOUND => c.value = MaxScore
        /\ c.type = UPPER_BOUND => c.value = -MaxScore
        /\ c.bestMove = (IF c.value > 0 THEN 1 ELSE 2)
        /\ c.key \notin SearchKeys =>
              /\ c.depth = MaxDepth /\ c.type = LOWER_BOUND
              /\ ~HasKey(tbl, c.key)
              /\ \A k \in Keys \ SearchKeys : k < c.key => HasKey(tbl, k) }

\* the sort key of cleanup, times 1000 to stay in the integers
CleanupScore(e) == e.accessTime + e.depth * 10 * 1000 - e.age * 5 * 1000

\* the position of entries[i] after the stable ascending sort of line 112
SortedRank(entries, i) ==
    Cardinality({ j \in 1 .. Len(entries) :
                    \/ CleanupScore(entries[j]) < CleanupScore(entries[i])
                    \/ (CleanupScore(entries[j]) = CleanupScore(entries[i]) /\ j < i) }) + 1

\* Math.floor(entries.length * 0.3)
ToDeleteMutant(n) == (n * 3 + 9) \div 10

ToDelete(n) == (n * 3) \div 10

cleanup(tbl) ==
    LET aged == [i \in 1 .. Len(tbl) |-> [tbl[i] EXCEPT !.age = @ + 1]]
        toDelete == ToDelete(Len(aged))
        Kept(i) == SortedRank(aged, i) > toDelete
        keptIdx == { i \in 1 .. Len(aged) : Kept(i) }
        \* the kept entries, still in insertion order
        Pos(k) == CHOOSE i \in keptIdx : Cardinality({ j \in keptIdx : j < i }) = k - 1
    IN  [k \in 1 .. Cardinality(keptIdx) |-> aged[Pos(k)]]

\* whether store writes the new entry (lines 53-55)
ReplacesMutant(existing, found, depth, type) ==
    \/ ~found
    \/ existing.depth <= depth

Replaces(existing, found, depth, type) ==
    \/ ~found
    \/ existing.depth < depth
    \/ (existing.depth = depth /\ type = EXACT)

NewEntryMutant(key, depth, value, type, bestMove, cnt) ==
    [key |-> key, depth |-> depth, value |-> value, type |-> type,
     bestMove |-> 0, accessTime |-> cnt, age |-> 0]

NewEntry(key, depth, value, type, bestMove, cnt) ==
    [key |-> key, depth |-> depth, value |-> value, type |-> type,
     bestMove |-> bestMove, accessTime |-> cnt, age |-> 0]

\* the table when store reads existingEntry: after the cleanup of lines 46-48
BeforeWrite(tbl, cap) == IF Len(tbl) >= cap THEN cleanup(tbl) ELSE tbl

store(tbl, cnt, cap, key, depth, value, type, bestMove) ==
    LET t1 == BeforeWrite(tbl, cap)
        found == HasKey(t1, key)
        existingEntry == IF found THEN EntryOf(t1, key) ELSE NewEntry(key, 0, 0, 0, 0, 0)
        entry == NewEntry(key, depth, value, type, bestMove, cnt)
    IN  IF Replaces(existingEntry, found, depth, type)
        THEN [table |-> IF found
                        THEN [t1 EXCEPT ![IndexOfKey(t1, key)] = entry]
                        ELSE Append(t1, entry),
              accessCount |-> cnt + 1]
        ELSE [table |-> t1, accessCount |-> cnt]

NoEntry ==
    [key |-> 0, depth |-> 0, value |-> 0, type |-> 0, bestMove |-> 0,
     accessTime |-> 0, age |-> 0]

\* what lookup returns: null, the entry itself (no property `useful`), or a
\* copy of the entry with useful: false
NullResult == [isNull |-> TRUE, useful |-> "undefined", entry |-> NoEntry]

\* whether the entry gives a bound fit for a cutoff (lines 87-93)
GivesCutoffMutant(entry, alpha, beta) ==
    \/ entry.type = EXACT
    \/ entry.type = LOWER_BOUND
    \/ (entry.type = UPPER_BOUND /\ entry.value <= alpha)

GivesCutoff(entry, alpha, beta) ==
    \/ entry.type = EXACT
    \/ (entry.type = LOWER_BOUND /\ entry.value >= beta)
    \/ (entry.type = UPPER_BOUND /\ entry.value <= alpha)

\* whether lookup gives up before touching the entry (line 79)
LookupMissMutant(tbl, key, depth) == ~HasKey(tbl, key)

LookupMiss(tbl, key, depth) ==
    ~HasKey(tbl, key) \/ EntryOf(tbl, key).depth < depth

lookup(tbl, cnt, key, depth, alpha, beta) ==
    IF LookupMiss(tbl, key, depth)
    THEN [table |-> tbl, accessCount |-> cnt, result |-> NullResult]
    ELSE LET entry == [EntryOf(tbl, key) EXCEPT !.accessTime = cnt, !.age = 0]
             t1 == [tbl EXCEPT ![IndexOfKey(tbl, key)] = entry]
         IN  [table |-> t1, accessCount |-> cnt + 1,
              result |-> [isNull |-> FALSE,
                          useful |-> IF GivesCutoff(entry, alpha, beta)
                                     THEN "undefined" ELSE "false",
                          entry |-> entry]]

\* lines 291-295 of negamax: the probe and the test that ends the node
NegamaxProbe(tbl, cnt, key, depth, alpha, beta) ==
    LET r == lookup(tbl, cnt, key, depth, alpha, beta)
        cached == r.result
    IN  [table |-> r.table, accessCount |-> r.accessCount,
         result |-> cached,
         outcome |-> IF ~cached.isNull /\ cached.useful # "false"
                     THEN "cutoff" ELSE "search",
         value |-> IF ~cached.isNull /\ cached.useful # "false"
                   THEN cached.entry.value ELSE 0]

\* ------------------------------------------------------------------------
\* Search (ai.search): evaluation memo, negamax, quiescenceSearch,
\* searchBestMove as a stack of frames
\* ------------------------------------------------------------------------
\* The code computes scores in floating point; the model computes them in
\* hundredths of a point, which every weight and every term of the evaluation
\* is a whole multiple of.
Hundredths == 100

Tenths == 10

\* a score of x points
Points(x) == x * Hundredths

\* JavaScript's Infinity in the search: above every score and every bound
SearchInfinity == 100000000

\* the mate score of negamax and of evaluatePosition's won positions
MATE == 10000

BIG_DELTA == 500

\* ai.maxRecursionDepth, and the length of ai.killerMoves
maxRecursionDepth == 60

KILLER_PLIES == 100

\* ---- bounds of the search ----
\* AI_PARAMS.MAX_DEPTH[ai.level], the cap of the iterative deepening
MaxSearchDepth == 1

\* ai.quiescenceDepth
QuiescenceDepth == 1

\* the node interval of the time check (2048 in negamax)
CheckPeriod == 2

\* -x, x - 1 and x + 1 on scores, Infinity staying Infinity
Neg(x) == IF x >= SearchInfinity THEN -SearchInfinity
          ELSE IF x <= -SearchInfinity THEN SearchInfinity ELSE -x

MinusOne(x) == IF x >= SearchInfinity \/ x <= -SearchInfinity THEN x ELSE x - Points(1)

PlusOne(x) == IF x >= SearchInfinity \/ x <= -SearchInfinity THEN x ELSE x + Points(1)

Max(a, b) == IF a >= b THEN a ELSE b

Min(a, b) == IF a <= b THEN a ELSE b

generateKeyMutant(pos) ==
    [pieces |-> [sq \in { s \in Squares : isDarkSquare(s[1], s[2]) } |-> pos.pieces[sq]],
     currentPlayer |-> PLAYER_WHITE]

\* the key of a position: the pieces of the dark squares and the side to move
generateKey(pos) ==
    [pieces |-> [sq \in { s \in Squares : isDarkSquare(s[1], s[2]) } |-> pos.pieces[sq]],
     currentPlayer |-> pos.currentPlayer]

Position(pcs, player, history) ==
    [pieces |-> pcs, currentPlayer |-> player, history |-> history]

\* the grid with white men on the squares of white and black men on those of black
Layout(white, black) ==
    [sq \in Squares |-> IF sq \in white THEN WHITE
                        ELSE IF sq \in black THEN BLACK ELSE NONE]

\* ------------------------------------------------------------------------
\* Positional evaluation (ai.evaluation)
\*
\* Scores are in hundredths of a point.
\* ------------------------------------------------------------------------
FLIP_COL(col) == 9 - col

MAN_PST ==
    << <<  0, 30,  0, 30,  0, 30,  0, 30,  0, 30 >>,
       << 25,  0, 28,  0, 28,  0, 28,  0, 28,  0 >>,
       <<  0, 22,  0, 25,  0, 25,  0, 25,  0, 22 >>,
       << 20,  0, 23,  0, 26,  0, 26,  0, 23,  0 >>,
       <<  0, 18,  0, 20,  0, 20,  0, 20,  0, 18 >>,
       << 15,  0, 17,  0, 17,  0, 17,  0, 17,  0 >>,
       <<  0, 10,  0, 12,  0, 12,  0, 12,  0, 10 >>,
       <<  5,  0,  8,  0,  8,  0,  8,  0,  8,  0 >>,
       <<  0,  0,  0,  5,  0,  5,  0,  5,  0,  0 >>,
       << -5,  0, -5,  0, -5,  0, -5,  0, -5,  0 >> >>

KING_PST ==
    << <<  -5,  0,  -5,  0,  -5,  0,  -5,  0,  -5,  0 >>,
       <<   0,  5,   0, 10,   0, 10,   0, 10,   0,  5 >>,
       <<  -5,  0,  15,  0,  20,  0,  20,  0,  15,  0 >>,
       <<   0, 10,   0, 25,   0, 30,   0, 25,   0, 10 >>,
       <<  -5,  0,  20,  0,  35,  0,  35,  0,  20,  0 >>,
       <<   0, 10,   0, 25,   0, 30,   0, 25,   0, 10 >>,
       <<  -5,  0,  15,  0,  20,  0,  20,  0,  15,  0 >>,
       <<   0,  5,   0, 10,   0, 10,   0, 10,   0,  5 >>,
       <<  -5,  0,  -5,  0,  -5,  0,  -5,  0,  -5,  0 >>,
       << -10,  0, -10,  0, -10,  0, -10,  0, -10,  0 >> >>

Abs(x) == IF x < 0 THEN -x ELSE x

\* Math.abs(row - 4.5) + Math.abs(col - 4.5), a whole number
CenterDist(row, col) == (Abs(2 * row - 9) + Abs(2 * col - 9)) \div 2

\* the squares of a side's pieces, in the order of the collecting loop
CollectedPieces(pcs, player) ==
    InLoopOrder({ IndexOf(sq) : sq \in { s \in Squares : isPlayerPiece(pcs[s], player) } })

\* the sum of F over the squares of a list
SumSquares(sqs, F(_)) == SumOver([k \in 1 .. Len(sqs) |-> F(sqs[k])], 1)

countTotalPieces(pcs) == Cardinality({ sq \in Squares : pcs[sq] # NONE })

getGamePhase(pcs) ==
    LET totalPieces == countTotalPieces(pcs)
    IN  IF totalPieces > 16 THEN "opening"
        ELSE IF totalPieces > 10 THEN "middlegame"
        ELSE "endgame"

\* the weights of a phase, in tenths
getPhaseWeights(gamePhase) ==
    IF gamePhase = "opening"
    THEN [mobility |-> 20, tactics |-> 10, control |-> 15, formations |-> 12,
          threats |-> 8, endgame |-> 0]
    ELSE IF gamePhase = "middlegame"
    THEN [mobility |-> 15, tactics |-> 15, control |-> 12, formations |-> 10,
          threats |-> 12, endgame |-> 0]
    ELSE [mobility |-> 8, tactics |-> 10, control |-> 8, formations |-> 5,
          threats |-> 6, endgame |-> 20]

evaluatePiecePositionFlipped(pcs, sq, isWhite, gamePhase) ==
    LET row == sq[1]
        col == sq[2]
        isKing == IsKingPiece(pcs[sq])
        mirroredCol == FLIP_COL(col)
        pstRow == IF isWhite THEN row ELSE 9 - row
    IN  IF isKing
        THEN KING_PST[pstRow + 1][mirroredCol + 1]
             + (IF gamePhase = "endgame"
                THEN (15 - CenterDist(row, mirroredCol)) * 2 ELSE 0)
        ELSE MAN_PST[pstRow + 1][mirroredCol + 1]
             + (IF isWhite
                THEN row * 3 + (IF row >= 7 THEN 20 ELSE 0) + (IF row = 8 THEN 30 ELSE 0)
                ELSE (9 - row) * 3 + (IF row <= 2 THEN 20 ELSE 0)
                     + (IF row = 1 THEN 30 ELSE 0))
             - (IF row = 0 \/ row = 9 \/ col = 0 \/ col = 9 THEN 5 ELSE 0)

\* evaluateMobilityDifferential on the two move counts it takes from generateMoves
evaluateMobilityDifferential(ourMoves, theirMoves) ==
    (ourMoves - theirMoves) * 5
    + (IF theirMoves <= 3 THEN 30 ELSE 0)
    + (IF theirMoves <= 1 THEN 70 ELSE 0)
    + (IF theirMoves = 0 THEN 200 ELSE 0)

\* countAttackersOn on the captures getAvailableCaptures lists for the attacker
countAttackersOn(captures, target) ==
    Cardinality({ i \in 1 .. Len(captures) : CapturesSquare(captures[i], target) })

countDefendersOf(pcs, target, defendingPlayer) ==
    Cardinality({ d \in 1 .. Len(KING_MOVES) :
        LET n == Neighbour(target, KING_MOVES[d])
        IN  isValidSquare(n[1], n[2]) /\ isPlayerPiece(pcs[n], defendingPlayer) })

\* detectForks on the moves generateMoves lists for the player
detectForks(moveList) ==
    Cardinality({ i \in 1 .. Len(moveList) : Len(moveList[i].captures) >= 2 })

\* what one target adds: its attackers beyond its defenders
ThreatOn(pcs, target, captures, defendingPlayer) ==
    LET att == countAttackersOn(captures, target)
        def == countDefendersOf(pcs, target, defendingPlayer)
    IN  IF att > def
        THEN (IF IsKingPiece(pcs[target]) THEN 150 ELSE 60) * (att - def)
        ELSE 0

evaluateTacticalThreats(pcs, whiteCaptures, blackCaptures, whiteMoves, blackMoves) ==
    LET OnBlack(t) == ThreatOn(pcs, t, whiteCaptures, PLAYER_BLACK)
        OnWhite(t) == ThreatOn(pcs, t, blackCaptures, PLAYER_WHITE)
    IN  SumSquares(CollectedPieces(pcs, PLAYER_BLACK), OnBlack)
        - SumSquares(CollectedPieces(pcs, PLAYER_WHITE), OnWhite)
        + detectForks(whiteMoves) * 40
        - detectForks(blackMoves) * 40

keySquares ==
    << [sq |-> <<4, 4>>, value |-> 10], [sq |-> <<4, 5>>, value |-> 10],
       [sq |-> <<5, 4>>, value |-> 10], [sq |-> <<5, 5>>, value |-> 10],
       [sq |-> <<3, 3>>, value |-> 7], [sq |-> <<3, 6>>, value |-> 7],
       [sq |-> <<6, 3>>, value |-> 7], [sq |-> <<6, 6>>, value |-> 7] >>

\* evaluateStrategicControl, in tenths
evaluateStrategicControl(pcs, gamePhase) ==
    LET controlValue(k) ==
            keySquares[k].value * (IF gamePhase = "middlegame" THEN 15 ELSE 10)
        OfKey(k) ==
            IF pcs[keySquares[k].sq] = NONE THEN 0
            ELSE IF isPlayerPiece(pcs[keySquares[k].sq], PLAYER_WHITE)
            THEN controlValue(k) ELSE -controlValue(k)
        OfColumn(c) ==
            (IF isPlayerPiece(pcs[<<0, c - 1>>], PLAYER_WHITE) THEN 20 ELSE 0)
            - (IF isPlayerPiece(pcs[<<9, c - 1>>], PLAYER_BLACK) THEN 20 ELSE 0)
    IN  SumOver([k \in 1 .. Len(keySquares) |-> OfKey(k)], 1)
        + Tenths * SumOver([c \in 1 .. BOARD_SIZE |-> OfColumn(c)], 1)

countProtectors(positions, sq) ==
    Cardinality({ d \in 1 .. Len(KING_MOVES) : Neighbour(sq, KING_MOVES[d]) \in positions })

\* the pieces of the chain that starts at sq and runs down to the right
RECURSIVE ChainLength(_, _)
ChainLength(positions, sq) ==
    IF <<sq[1] + 1, sq[2] + 1>> \in positions
    THEN 1 + ChainLength(positions, <<sq[1] + 1, sq[2] + 1>>)
    ELSE 1

getFormationScore(sqs) ==
    LET positions == { sqs[k] : k \in 1 .. Len(sqs) }
        OfPiece(sq) ==
            (IF /\ <<sq[1] + 1, sq[2] - 1>> \in positions
                /\ <<sq[1] + 1, sq[2] + 1>> \in positions THEN 15 ELSE 0)
            + (IF ChainLength(positions, sq) >= 3
               THEN ChainLength(positions, sq) * 8 ELSE 0)
            + (IF \/ <<sq[1], sq[2] + 2>> \in positions
                  \/ <<sq[1], sq[2] - 2>> \in positions THEN 5 ELSE 0)
            + countProtectors(positions, sq) * 6
    IN  SumSquares(sqs, OfPiece)

\* evaluateFormations, in tenths: each side's formation score times 1.2
evaluateFormations(pcs) ==
    getFormationScore(CollectedPieces(pcs, PLAYER_WHITE)) * 12
    - getFormationScore(CollectedPieces(pcs, PLAYER_BLACK)) * 12

\* whether the squares from + dir, ..., from + (distance - 1) * dir are empty
RECURSIVE ClearRun(_, _, _, _)
ClearRun(pcs, from, dir, distance) ==
    IF distance <= 1 THEN TRUE
    ELSE LET sq == << from[1] + (distance - 1) * dir.dy, from[2] + (distance - 1) * dir.dx >>
         IN  pcs[sq] = NONE /\ ClearRun(pcs, from, dir, distance - 1)

\* getThreatenedSquares: the value of the threat the piece on from makes on
\* sq in direction dir, 0 when it makes none
ThreatValue(pcs, from, dir, sq) ==
    IF IsKingPiece(pcs[from])
    THEN LET reach == { k \in 1 .. 7 :
                          /\ sq = << from[1] + k * dir.dy, from[2] + k * dir.dx >>
                          /\ ClearRun(pcs, from, dir, k) }
         IN  IF reach = {} THEN 0
             ELSE Max(5 - (CHOOSE k \in reach : TRUE), 1)
    ELSE IF sq = Neighbour(from, dir) THEN 3 ELSE 0

\* getThreatHeatmap(position, enemyPieces)[sq]
getThreatHeatmap(pcs, enemyPieces, sq) ==
    LET OfEnemy(from) ==
            SumOver([d \in 1 .. Len(KING_MOVES) |-> ThreatValue(pcs, from, KING_MOVES[d], sq)], 1)
    IN  SumSquares(enemyPieces, OfEnemy)

evaluateHeatmaps(pcs) ==
    LET white == CollectedPieces(pcs, PLAYER_WHITE)
        black == CollectedPieces(pcs, PLAYER_BLACK)
        OnWhite(p) == getThreatHeatmap(pcs, black, p) * 3
        OnBlack(p) == getThreatHeatmap(pcs, white, p) * 3
    IN  SumSquares(black, OnBlack) - SumSquares(white, OnWhite)

Kings(pcs, player) ==
    { sq \in Squares : isPlayerPiece(pcs[sq], player) /\ IsKingPiece(pcs[sq]) }

Men(pcs, player) ==
    { sq \in Squares : isPlayerPiece(pcs[sq], player) /\ ~IsKingPiece(pcs[sq]) }

evaluateOpposition(pcs, player) ==
    IF Cardinality(Kings(pcs, PLAYER_WHITE)) = 1 /\ Cardinality(Kings(pcs, PLAYER_BLACK)) = 1
    THEN LET whiteKing == CHOOSE sq \in Kings(pcs, PLAYER_WHITE) : TRUE
             blackKing == CHOOSE sq \in Kings(pcs, PLAYER_BLACK) : TRUE
             rowDiff == Abs(whiteKing[1] - blackKing[1])
             colDiff == Abs(whiteKing[2] - blackKing[2])
         IN  IF (rowDiff = 2 /\ colDiff = 0) \/ (rowDiff = 0 /\ colDiff = 2)
             THEN (IF player = PLAYER_WHITE THEN 1 ELSE -1)
             ELSE 0
    ELSE 0

evaluateEndgame(pcs, player) ==
    LET totalPieces == countTotalPieces(pcs)
        kingDiff == Cardinality(Kings(pcs, PLAYER_WHITE)) - Cardinality(Kings(pcs, PLAYER_BLACK))
        Central(p) == IF IsKingPiece(pcs[p]) THEN 15 - CenterDist(p[1], p[2]) ELSE 0
    IN  (IF Men(pcs, PLAYER_WHITE) = {} /\ Men(pcs, PLAYER_BLACK) = {}
         THEN kingDiff * 200
              + (IF Abs(kingDiff) <= 1
                 THEN SumSquares(CollectedPieces(pcs, PLAYER_WHITE), Central)
                      - SumSquares(CollectedPieces(pcs, PLAYER_BLACK), Central)
                 ELSE 0)
         ELSE 0)
        + (IF totalPieces <= 6 THEN evaluateOpposition(pcs, player) * 50 ELSE 0)

\* lines 332-364 of evaluatePosition but for the call of line 346: the score
\* of a position neither side has won, in hundredths, from the side to move,
\* given what evaluateMobilityDifferential returned; the four lists are what
\* getAvailableCaptures and generateMoves give on the grid for either side
WeightedScore(pcs, player, mobility, whiteCaptures, blackCaptures, whiteMoves, blackMoves) ==
    LET gamePhase == getGamePhase(pcs)
        weights == getPhaseWeights(gamePhase)
        white == CollectedPieces(pcs, PLAYER_WHITE)
        black == CollectedPieces(pcs, PLAYER_BLACK)
        OfWhite(p) == getPieceValue(pcs[p]) + evaluatePiecePositionFlipped(pcs, p, TRUE, gamePhase)
        OfBlack(p) == getPieceValue(pcs[p]) + evaluatePiecePositionFlipped(pcs, p, FALSE, gamePhase)
        threats == evaluateTacticalThreats(pcs, whiteCaptures, blackCaptures, whiteMoves, blackMoves)
        endgameScore == IF gamePhase = "endgame" THEN evaluateEndgame(pcs, player) ELSE 0
        score == Hundredths * (SumSquares(white, OfWhite) - SumSquares(black, OfBlack))
                 + Tenths * mobility * weights.mobility
                 + Tenths * threats * weights.tactics
                 + evaluateStrategicControl(pcs, gamePhase) * weights.control
                 + evaluateFormations(pcs) * weights.formations
                 + Tenths * evaluateHeatmaps(pcs) * weights.threats
                 + Tenths * endgameScore * weights.endgame
                 + Hundredths * (IF player = PLAYER_WHITE THEN 10 ELSE -10)
    IN  IF player = PLAYER_WHITE THEN score ELSE -score

\* lines 332-364 of evaluatePosition, the mobility being that of the side to
\* move against its opponent's (lines 416-424)
FinalScore(pcs, player, whiteCaptures, blackCaptures, whiteMoves, blackMoves) ==
    WeightedScore(pcs, player,
                  IF player = PLAYER_WHITE
                  THEN evaluateMobilityDifferential(Len(whiteMoves), Len(blackMoves))
                  ELSE evaluateMobilityDifferential(Len(blackMoves), Len(whiteMoves)),
                  whiteCaptures, blackCaptures, whiteMoves, blackMoves)

\* ---- evaluatePosition: the memo, the won positions, the heuristic score ----
Cached(cache, key) == \E p \in cache : p.key = key

CachedScore(cache, key) == (CHOOSE p \in cache : p.key = key).score

\* the score evaluatePosition computes and stores for a position neither side
\* has won (lines 332-365)
Computed(cache, cacheKey, finalScore) ==
    [score |-> finalScore,
     evalCache |-> cache \cup {[key |-> cacheKey, score |-> finalScore]}]

\* evaluatePosition(ai, position): the score and the memo it leaves
evaluatePosition(cache, pos) ==
    LET cacheKey == generateKey(pos)
        noWhite == \A sq \in Squares : ~isPlayerPiece(pos.pieces[sq], PLAYER_WHITE)
        noBlack == \A sq \in Squares : ~isPlayerPiece(pos.pieces[sq], PLAYER_BLACK)
    IN  IF Cached(cache, cacheKey)
        THEN [score |-> CachedScore(cache, cacheKey), evalCache |-> cache]
        ELSE IF noWhite
        THEN [score |-> IF pos.currentPlayer = PLAYER_BLACK THEN Points(MATE) ELSE -Points(MATE),
              evalCache |-> cache]
        ELSE IF noBlack
        THEN [score |-> IF pos.currentPlayer = PLAYER_WHITE THEN Points(MATE) ELSE -Points(MATE),
              evalCache |-> cache]
        ELSE Computed(cache, cacheKey,
                      FinalScore(pos.pieces, pos.currentPlayer,
                                 getAvailableCaptures(pos.pieces, PLAYER_WHITE),
                                 getAvailableCaptures(pos.pieces, PLAYER_BLACK),
                                 generateMoves(pos.pieces, PLAYER_WHITE),
                                 generateMoves(pos.pieces, PLAYER_BLACK)))

\* ---- killer moves and history table ----
NoKillers == [ply \in 0 .. KILLER_PLIES - 1 |-> << NoMove, NoMove >>]

isSameMove(move1, move2) ==
    /\ move1 # NoMove
    /\ move2 # NoMove
    /\ move1.from = move2.from
    /\ move1.to = move2.to

updateKillerMovesMutant(m, ply, killers) ==
    IF ply >= KILLER_PLIES THEN killers
    ELSE IF ~isSameMove(m, killers[ply][1])
    THEN [killers EXCEPT ![ply] = << m, killers[ply][1] >>]
    ELSE killers

\* updateKillerMoves (lines 700-712)
updateKillerMoves(m, ply, killers) ==
    IF ply >= KILLER_PLIES THEN killers
    ELSE IF Len(m.captures) > 0 THEN killers
    ELSE IF ~isSameMove(m, killers[ply][1])
    THEN [killers EXCEPT ![ply] = << m, killers[ply][1] >>]
    ELSE killers

getMoveKey(m) == << m.from, m.to >>

HistoryScore(history, key) ==
    IF \E h \in history : h.key = key
    THEN (CHOOSE h \in history : h.key = key).score ELSE 0

updateHistory(m, depth, history) ==
    LET key == getMoveKey(m)
        current == HistoryScore(history, key)
        aged == IF current > 10000
                THEN { [key |-> h.key, score |-> h.score \div 2] : h \in history }
                ELSE history
    IN  { h \in aged : h.key # key } \cup {[key |-> key, score |-> current + depth * depth]}

\* ---- the depths a call hands on ----
\* lines 305-307 of negamax: a node with at most three legal moves is searched
\* one deeper, as long as recursionDepth is below 10
ExtendedDepth(depth, legal, recursionDepth) ==
    IF depth >= 2 /\ legal <= 3 /\ recursionDepth < 10 THEN depth + 1 ELSE depth

\* lines 336-339 of negamax: the reduction of the move with index i
Reduction(depth, i, quiet, givesCheck) ==
    IF depth >= 3 /\ i >= 3 /\ quiet /\ ~givesCheck
    THEN (IF i >= 6 THEN 2 ELSE 1) ELSE 0

QuiescenceLeafMutant(depth, recursionDepth) ==
    depth < 0 \/ recursionDepth > maxRecursionDepth + 10

\* line 400 of quiescenceSearch: the call that only evaluates
QuiescenceLeaf(depth, recursionDepth) ==
    depth <= 0 \/ recursionDepth > maxRecursionDepth + 10

\* ---- frames ----
\* one call of searchBestMove, negamax or quiescenceSearch: its arguments and
\* its locals. at is "entry" before the body runs, "loop" at the head of the
\* loop over the moves, "wait" while a call it made is running; stage says
\* which call that is. alpha0 keeps the alpha the call was made with, which
\* line 361 of negamax overwrites.
Frame(fn, pos, depth, alpha, beta, rdepth, ply) ==
    [fn |-> fn, pos |-> pos, depth |-> depth, alpha |-> alpha, beta |-> beta,
     alpha0 |-> alpha, recursionDepth |-> rdepth, ply |-> ply,
     at |-> "entry", stage |-> "none", remaining |-> {}, i |-> 0,
     move |-> NoMove, bestScore |-> -SearchInfinity, bestMove |-> NoMove,
     first |-> NoMove]

\* the position makeMove returns, with the history searchBestMove and negamax
\* give it
Child(pos, m, history) ==
    LET p == makeMove(pos.pieces, pos.currentPlayer, m)
    IN  Position(p.pieces, p.currentPlayer, history)

\* the lookups orderMoves and orderMovesAtRoot make, one for every move
RECURSIVE OrderLookups(_, _, _, _)
OrderLookups(tbl, cnt, key, n) ==
    IF n = 0 THEN [table |-> tbl, accessCount |-> cnt]
    ELSE LET r == lookup(tbl, cnt, key, 0, -SearchInfinity, SearchInfinity)
         IN  OrderLookups(r.table, r.accessCount, key, n - 1)

SeqToSet(s) == { s[k] : k \in 1 .. Len(s) }

\* what a finished searchBestMove hands back
NoResult == [move |-> NoMove, score |-> 0, timeout |-> FALSE, none |-> TRUE]

Result(m, score, timeout) ==
    [move |-> m, score |-> score, timeout |-> timeout, none |-> FALSE]

Context(tbl, cnt, killers, history) ==
    [table |-> tbl, accessCount |-> cnt, killerMoves |-> killers,
     historyTable |-> history]

\* outcomes of a step of a frame: it goes on (perhaps with a new call on top
\* of it), it returns a score, or searchBestMove returns its result
GoOn(frame, ctx) ==
    [kind |-> "continue", frame |-> frame, calls |-> << >>, value |-> 0,
     result |-> NoResult, ctx |-> ctx]

Call(frame, callee, ctx) ==
    [kind |-> "continue", frame |-> frame, calls |-> << callee >>, value |-> 0,
     result |-> NoResult, ctx |-> ctx]

ReturnValue(frame, v, ctx) ==
    [kind |-> "return", frame |-> frame, calls |-> << >>, value |-> v,
     result |-> NoResult, ctx |-> ctx]

ReturnResult(frame, res, ctx) ==
    [kind |-> "result", frame |-> frame, calls |-> << >>, value |-> 0,
     result |-> res, ctx |-> ctx]

\* ---- negamax ----
\* lines 376-378: the type of the entry, from the locals at the end of the loop
BoundType(bestScore, alpha, beta) ==
    IF bestScore <= alpha THEN UPPER_BOUND
    ELSE IF bestScore >= beta THEN LOWER_BOUND ELSE EXACT

\* lines 375-382: the store and the return
NegamaxFinish(f, ctx) ==
    LET type == BoundType(f.bestScore, f.alpha, f.beta)
        s == store(ctx.table, ctx.accessCount, 2000000, generateKey(f.pos),
                   f.depth, f.bestScore, type, f.bestMove)
    IN  ReturnValue(f, f.bestScore,
                    [ctx EXCEPT !.table = s.table, !.accessCount = s.accessCount])

\* lines 357-373: the score of the move just searched
NegamaxFold(f, score, ctx) ==
    LET better == score > f.bestScore
        f1 == [f EXCEPT !.bestScore = IF better THEN score ELSE @,
                        !.bestMove = IF better THEN f.move ELSE @,
                        !.alpha = Max(@, score),
                        !.remaining = @ \ {f.move},
                        !.i = @ + 1,
                        !.at = "loop", !.stage = "none"]
        quiet == Len(f.move.captures) = 0
        ctx1 == IF f1.alpha >= f1.beta /\ quiet
                THEN [ctx EXCEPT !.killerMoves = updateKillerMoves(f.move, f.ply, @),
                                 !.historyTable = updateHistory(f.move, f.depth, @)]
                ELSE ctx
    IN  IF f1.alpha >= f1.beta THEN NegamaxFinish(f1, ctx1)
        ELSE IF f1.remaining = {} THEN NegamaxFinish(f1, ctx)
        ELSE GoOn(f1, ctx)

\* line 325: orderMoves, then the loop
NegamaxOrder(f, moveList, ctx) ==
    LET o == OrderLookups(ctx.table, ctx.accessCount, generateKey(f.pos), Len(moveList))
    IN  GoOn([f EXCEPT !.at = "loop", !.stage = "none",
                       !.remaining = SeqToSet(moveList), !.i = 0],
             [ctx EXCEPT !.table = o.table, !.accessCount = o.accessCount])

\* lines 329-355: the call for the next move m of the ordered list
NegamaxCall(f, m, ctx) ==
    LET key == generateKey(f.pos)
        newPosition == Child(f.pos, m, Append(f.pos.history, key))
        givesCheck == Len(getAvailableCaptures(newPosition.pieces,
                                               newPosition.currentPlayer)) > 0
        reduction == Reduction(f.depth, f.i, Len(m.captures) = 0, givesCheck)
    IN  IF f.i = 0
        THEN Call([f EXCEPT !.at = "wait", !.stage = "first", !.move = m],
                  Frame("negamax", newPosition, f.depth - 1, Neg(f.beta), Neg(f.alpha),
                        f.recursionDepth + 1, f.ply + 1), ctx)
        ELSE Call([f EXCEPT !.at = "wait", !.stage = "reduced", !.move = m],
                  Frame("negamax", newPosition, f.depth - 1 - reduction,
                        MinusOne(Neg(f.alpha)), Neg(f.alpha),
                        f.recursionDepth + 1, f.ply + 1), ctx)

\* what negamax does with the score v a call it made returns
NegamaxResume(f, v, ctx) ==
    LET score == Neg(v)
        key == generateKey(f.pos)
    IN  IF f.stage = "tail" THEN ReturnValue(f, v, ctx)
        ELSE IF f.stage = "nullmove"
        THEN IF score >= f.beta THEN ReturnValue(f, f.beta, ctx)
             ELSE NegamaxOrder(f, generateMoves(f.pos.pieces, f.pos.currentPlayer), ctx)
        ELSE IF f.stage = "reduced" /\ score > f.alpha /\ score < f.beta
        THEN Call([f EXCEPT !.stage = "full"],
                  Frame("negamax", Child(f.pos, f.move, Append(f.pos.history, key)),
                        f.depth - 1, Neg(f.beta), Neg(f.alpha),
                        f.recursionDepth + 1, f.ply + 1), ctx)
        ELSE NegamaxFold(f, score, ctx)

\* ---- quiescenceSearch ----
\* lines 435-453: the captures left, the one searched next being m
QuiescenceCall(f, m, ctx) ==
    IF staticExchangeEvaluation(f.pos.pieces, f.pos.currentPlayer, m) < 0
    THEN IF f.remaining \ {m} = {} THEN ReturnValue(f, f.alpha, ctx)
         ELSE GoOn([f EXCEPT !.remaining = @ \ {m}], ctx)
    ELSE Call([f EXCEPT !.at = "wait", !.stage = "first", !.move = m],
              Frame("quiescence", Child(f.pos, m, << >>), f.depth - 1,
                    Neg(f.beta), Neg(f.alpha), f.recursionDepth + 1, f.ply), ctx)

QuiescenceResume(f, v, ctx) ==
    LET score == Neg(v)
        f1 == [f EXCEPT !.alpha = Max(@, score), !.remaining = @ \ {f.move},
                        !.at = "loop", !.stage = "none"]
    IN  IF score >= f.beta THEN ReturnValue(f, f.beta, ctx)
        ELSE IF f1.remaining = {} THEN ReturnValue(f1, f1.alpha, ctx)
        ELSE GoOn(f1, ctx)

\* ---- searchBestMove ----
\* lines 214 and 250: bestMove || moves[0], the score, the timeout flag
RootFinish(f, timeout, ctx) ==
    ReturnResult(f, Result(IF f.bestMove # NoMove THEN f.bestMove ELSE f.first,
                           f.bestScore, timeout), ctx)

\* lines 217-233: the call for the next root move m
RootCall(f, m, ctx) ==
    LET newPosition == Child(f.pos, m, Append(f.pos.history, generateKey(f.pos)))
    IN  IF f.i = 0
        THEN Call([f EXCEPT !.at = "wait", !.stage = "first", !.move = m],
                  Frame("negamax", newPosition, f.depth - 1, Neg(f.beta), Neg(f.alpha),
                        0, 1), ctx)
        ELSE Call([f EXCEPT !.at = "wait", !.stage = "reduced", !.move = m],
                  Frame("negamax", newPosition, f.depth - 1,
                        MinusOne(Neg(f.alpha)), Neg(f.alpha), 0, 1), ctx)

\* lines 236-247
RootFold(f, score, ctx) ==
    LET better == score > f.bestScore
        f1 == [f EXCEPT !.bestScore = IF better THEN score ELSE @,
                        !.bestMove = IF better THEN f.move ELSE @,
                        !.alpha = Max(@, score),
                        !.remaining = @ \ {f.move},
                        !.i = @ + 1,
                        !.at = "loop", !.stage = "none"]
    IN  IF f1.alpha >= f1.beta
        THEN RootFinish(f1, FALSE,
                        [ctx EXCEPT !.killerMoves = updateKillerMoves(f.move, 0, @)])
        ELSE IF f1.remaining = {} THEN RootFinish(f1, FALSE, ctx)
        ELSE GoOn(f1, ctx)

RootResume(f, v, ctx) ==
    LET score == Neg(v)
    IN  IF f.stage = "reduced" /\ score > f.alpha /\ score < f.beta
        THEN Call([f EXCEPT !.stage = "full"],
                  Frame("negamax",
                        Child(f.pos, f.move, Append(f.pos.history, generateKey(f.pos))),
                        f.depth - 1, Neg(f.beta), Neg(f.alpha), 0, 1), ctx)
        ELSE RootFold(f, score, ctx)

\* ---- returning through the stack ----
Resume(f, v, ctx) ==
    IF f.fn = "negamax" THEN NegamaxResume(f, v, ctx)
    ELSE IF f.fn = "quiescence" THEN QuiescenceResume(f, v, ctx)
    ELSE RootResume(f, v, ctx)

Front(s) == SubSeq(s, 1, Len(s) - 1)

Last(s) == s[Len(s)]

\* the stack, the context and searchBestMove's result once outcome r of the
\* top frame has taken effect: a returned score resumes the caller, which may
\* return in turn; log lists the calls that returned a score, innermost first
RECURSIVE Unwind(_, _, _)
Unwind(stk, r, log) ==
    IF r.kind = "continue"
    THEN [stack |-> Append(Front(stk), r.frame) \o r.calls, ctx |-> r.ctx,
          result |-> NoResult, returns |-> log]
    ELSE IF r.kind = "result"
    THEN [stack |-> << >>, ctx |-> r.ctx, result |-> r.result, returns |-> log]
    ELSE Unwind(Front(stk), Resume(stk[Len(stk) - 1], r.value, r.ctx),
                Append(log, [frame |-> r.frame, value |-> r.value]))

\* ---- entering a call ----
\* negamax from line 270 to its loop at line 325. n is ai.nodeCount after
\* line 267, over says whether Date.now() - startTime > timeLimit, ev is what
\* evaluatePosition gives, probe what the table lookup gives, moveList the
\* legal moves and hasCaptures whether the side to move can capture
NegamaxBody(f, n, over, ev, cache, ctx, key, probe, moveList, hasCaptures) ==
    LET repeats == Cardinality({ k \in 1 .. Len(f.pos.history) :
                                   f.pos.history[k] = key }) >= 2
        ctxP == [ctx EXCEPT !.table = probe.table, !.accessCount = probe.accessCount]
        depth == ExtendedDepth(f.depth, Len(moveList), f.recursionDepth)
        f2 == [f EXCEPT !.depth = depth]
        nullPos == Position(f.pos.pieces,
                            IF f.pos.currentPlayer = 1 THEN 2 ELSE 1, f.pos.history)
        R == IF depth > 6 THEN 3 ELSE 2
        Out(r, c, aborted) == [r |-> r, evalCache |-> c, aborted |-> aborted]
    IN  IF f.recursionDepth > maxRecursionDepth
        THEN Out(ReturnValue(f, ev.score, ctx), ev.evalCache, FALSE)
        ELSE IF n % CheckPeriod = 0 /\ over
        THEN Out(ReturnValue(f, 0, ctx), cache, TRUE)
        ELSE IF repeats
        THEN Out(ReturnValue(f, -Points(50), ctx), cache, FALSE)
        ELSE IF f.depth <= 0
        THEN Out(Call([f EXCEPT !.at = "wait", !.stage = "tail"],
                      Frame("quiescence", f.pos, QuiescenceDepth, f.alpha, f.beta,
                            f.recursionDepth, f.ply), ctx), cache, FALSE)
        ELSE IF probe.outcome = "cutoff"
        THEN Out(ReturnValue(f, probe.value, ctxP), cache, FALSE)
        ELSE IF Len(moveList) = 0
        THEN Out(ReturnValue(f, Points(-MATE + f.ply), ctxP), cache, FALSE)
        ELSE IF depth >= 3 /\ f.recursionDepth > 0 /\ Len(moveList) > 5 /\ ~hasCaptures
        THEN Out(Call([f2 EXCEPT !.at = "wait", !.stage = "nullmove"],
                      Frame("negamax", nullPos, depth - 1 - R,
                            Neg(f.beta), PlusOne(Neg(f.beta)),
                            f.recursionDepth + 1, f.ply), ctxP), cache, FALSE)
        ELSE Out(NegamaxOrder(f2, moveList, ctxP), cache, FALSE)

\* negamax up to its loop (lines 267-325)
NegamaxEntry(f, n, over, cache, ctx) ==
    NegamaxBody(f, n, over, evaluatePosition(cache, f.pos), cache, ctx,
                generateKey(f.pos),
                NegamaxProbe(ctx.table, ctx.accessCount, generateKey(f.pos),
                             f.depth, f.alpha, f.beta),
                generateMoves(f.pos.pieces, f.pos.currentPlayer),
                Len(getAvailableCaptures(f.pos.pieces, f.pos.currentPlayer)) > 0)

\* quiescenceSearch from line 401 to its loop; ev is what evaluatePosition
\* gives and captures the captures of the side to move
QuiescenceBody(f, ev, captures, ctx) ==
    LET standPat == ev.score
        Out(r) == [r |-> r, evalCache |-> ev.evalCache, aborted |-> FALSE]
    IN  IF QuiescenceLeaf(f.depth, f.recursionDepth)
        THEN Out(ReturnValue(f, ev.score, ctx))
        ELSE IF standPat >= f.beta THEN Out(ReturnValue(f, f.beta, ctx))
        ELSE IF standPat < f.alpha - Points(BIG_DELTA) THEN Out(ReturnValue(f, f.alpha, ctx))
        ELSE IF Len(captures) = 0 THEN Out(ReturnValue(f, standPat, ctx))
        ELSE Out(GoOn([f EXCEPT !.alpha = Max(@, standPat), !.at = "loop",
                                !.remaining = SeqToSet(captures)], ctx))

\* quiescenceSearch up to its loop (lines 398-433); f.depth is its depth
QuiescenceEntry(f, cache, ctx) ==
    QuiescenceBody(f, evaluatePosition(cache, f.pos),
                   getAvailableCaptures(f.pos.pieces, f.pos.currentPlayer), ctx)

\* searchBestMove up to its loop (lines 204-207); first is the move
\* orderMovesAtRoot puts first
RootEntry(f, first, ctx) ==
    NegamaxOrder([f EXCEPT !.first = first],
                 generateMoves(f.pos.pieces, f.pos.currentPlayer), ctx)

\* what is known of the evaluatePosition calls: the last call, and the score
\* of every call made
NoCall == [called |-> FALSE, pos |-> [pieces |-> << >>, currentPlayer |-> 0],
           score |-> 0, hit |-> FALSE]

NotEvaluated == [last |-> NoCall, seen |-> {}]

\* the time limit of getBestMove before a call is made
NoTiming ==
    [at |-> "idle", level |-> 0, moveNumber |-> 0, totalPieces |-> 0,
     maxCaptures |-> 0, rootMoves |-> 0, baseTime |-> 0, timeLimit |-> 0,
     maxDepth |-> 0, depth |-> 0, extensions |-> 0]

\* getBestMove's locals
NoLocals ==
    [depth |-> 0, maxDepth |-> 0, bestMove |-> NoMove, bestScore |-> 0,
     lastScore |-> 0, alpha |-> 0, beta |-> 0, result |-> NoResult,
     completed |-> 0]

\* what getBestMove returned, and from which of its return statements
NotReturned == [done |-> FALSE, move |-> NoMove, path |-> "none"]

Returned(m, path) == [done |-> TRUE, move |-> m, path |-> path]

\* ------------------------------------------------------------------------
\* The worker (ai.core): the AI instance and its message handler
\* ------------------------------------------------------------------------
\* ---- bounds of the worker ----
\* messages the page posts to the worker
MaxMessages == 3

\* nodes one searchBestMove call visits at most
MaxNodes == 1

\* depths the iterative deepening of one request goes through at most
MaxWorkerDepth == 2

MessageTypes == {"getMove", "abort", "setDifficulty", "newGame"}

\* the fields of the AI instance the handlers read and write
Instance(tbl, cnt, cache, n, aborted, history, killers, stats) ==
    [table |-> tbl, accessCount |-> cnt, evalCache |-> cache, nodeCount |-> n,
     searchAborted |-> aborted, positionHistory |-> history,
     killerMoves |-> killers, statistics |-> stats]

NoStatistics == [totalNodes |-> 0, gamesPlayed |-> 0]

\* getMove, lines 565-577: the reset and the periodic cleanup of the memo
ResetSearchState(a) ==
    [a EXCEPT !.nodeCount = 0,
              !.searchAborted = FALSE,
              !.evalCache = IF Cardinality(@) > 50000 THEN {} ELSE @]

CleanContextMutant(a) ==
    [a EXCEPT !.nodeCount = 0,
              !.searchAborted = FALSE,
              !.positionHistory = << >>]

\* getBestMove, lines 35-40
CleanContext(a) ==
    [a EXCEPT !.nodeCount = 0,
              !.searchAborted = FALSE,
              !.positionHistory = << >>,
              !.killerMoves = NoKillers]

\* setDifficulty, lines 519-521
ClearCaches(a) ==
    [a EXCEPT !.table = << >>, !.accessCount = 0, !.evalCache = {}]

\* abortSearch, line 602
abortSearch(a) == [a EXCEPT !.searchAborted = TRUE]

\* resetForNewGame, lines 636-640
resetForNewGame(a) ==
    [a EXCEPT !.positionHistory = << >>,
              !.statistics.gamesPlayed = @ + 1,
              !.killerMoves = NoKillers]

\* getMove, lines 584-585
UpdateStatistics(a) == [a EXCEPT !.statistics.totalNodes = @ + a.nodeCount]

\* a quiet move, a position with its key and score, and an entry for what a search leaves in the killer
\* table, the memo and the transposition table
SampleMove == [from |-> <<5, 4>>, to |-> <<4, 3>>, captures |-> << >>]

SamplePosition == Position(Layout({<<5, 0>>}, {<<0, 1>>}), PLAYER_WHITE, << >>)

SampleKey == generateKey(SamplePosition)

SampleScore == evaluatePosition({}, SamplePosition).score

\* what one searchBestMove call may leave behind: n nodes counted; the abort
\* flag set by the time check of one of them; a killer move, a memo entry and
\* a table entry written
Searched(a, n, aborted, wrote) ==
    LET s == store(a.table, a.accessCount, 2000000, SampleKey, 1, 0, EXACT, SampleMove)
    IN  [a EXCEPT !.nodeCount = @ + n,
                  !.searchAborted = @ \/ aborted,
                  !.killerMoves = IF wrote THEN updateKillerMoves(SampleMove, 0, @) ELSE @,
                  !.evalCache = IF wrote THEN @ \cup {[key |-> SampleKey, score |-> SampleScore]}
                                ELSE @,
                  !.table = IF wrote THEN s.table ELSE @,
                  !.accessCount = IF wrote THEN s.accessCount ELSE @]

SearchOutcomes(a) ==
    { Searched(a, o[1], o[2], o[3]) :
        o \in { p \in (0 .. MaxNodes) \X BOOLEAN \X BOOLEAN :
                  p[1] = 0 => ~p[2] /\ ~p[3] } }

\* continuations waiting for the promise they await: getBestMove at line 112
\* (or 121 once it has re-searched), getMove at line 580, the handler at
\* line 746
AfterSearchBestMove(depth, timeout, retried) ==
    [fn |-> "getBestMove", depth |-> depth, timeout |-> timeout, retried |-> retried]

AfterGetBestMove == [fn |-> "getMove", depth |-> 0, timeout |-> FALSE, retried |-> FALSE]

AfterGetMove == [fn |-> "onmessage", depth |-> 0, timeout |-> FALSE, retried |-> FALSE]

NextTaskMutant(inb, micro) ==
    IF inb # << >> THEN "message"
    ELSE IF micro # << >> THEN "microtask" ELSE "none"

\* what the worker's event loop runs next: a message event is a task, and a
\* task is only taken once no continuation of an awaited promise is pending
NextTask(inb, micro) ==
    IF micro # << >> THEN "microtask"
    ELSE IF inb # << >> THEN "message" ELSE "none"

\* what the last step did, and how many getBestMove calls had begun and not
\* returned when it did it
NoEvent == [kind |-> "none", active |-> 0]

Event(kind, n) == [kind |-> kind, active |-> n]

\* the search context at the first searchBestMove call of a getBestMove, and
\* the context the request found
NoFirstNode ==
    [seen |-> FALSE, found |-> Instance(<< >>, 0, {}, 0, FALSE, << >>, NoKillers, NoStatistics),
     context |-> Instance(<< >>, 0, {}, 0, FALSE, << >>, NoKillers, NoStatistics)]

FirstNode(found, context) == [seen |-> TRUE, found |-> found, context |-> context]

\* ------------------------------------------------------------------------
\* State
\* ------------------------------------------------------------------------
VARIABLES
    pieces,          \* position.pieces of the position under analysis
    currentPlayer,   \* position.currentPlayer
    pc,              \* "start", "generated" (moves listed), "moved" (move applied)
    allCaptures,     \* what findCaptureSequences pushed in the last generateMoves
    moves,           \* the list generateMoves returned
    move,            \* the move handed to makeMove
    newPosition,     \* the position makeMove returned
    attackers,       \* the last countAttackers result, -1 when there is none
    pins,            \* the last detectPinsAndSkewers result
    table,           \* the Map of the transposition table, in insertion order
    accessCount,     \* its access counter
    maxSize,         \* the capacity it was created with
    ret,             \* what the last negamax probe got back and did
    safety,          \* the last staticExchangeEvaluation or isMoveReallySafe result
    evalCache,       \* ai.evalCache: the memo of evaluatePosition
    nodeCount,       \* ai.nodeCount
    searchAborted,   \* ai.searchAborted
    positionHistory, \* ai.positionHistory
    killerMoves,     \* ai.killerMoves: two slots for every ply
    historyTable,    \* ai.historyTable
    openingBook,     \* whether ai.openingBook is set
    clock,           \* 0 while over a tenth of the time limit is left, 1 after
                     \* that, 2 once the limit is exceeded
    stack,           \* the running searchBestMove, negamax and quiescenceSearch calls
    spc,             \* where getBestMove stands
    gbm,             \* getBestMove's locals
    returned,        \* what getBestMove returned
    returns,         \* the calls that returned a score in the last step
    statistics,      \* ai.statistics: totalNodes and gamesPlayed
    inbox,           \* the messages posted to the worker and not yet handled
    sent,            \* how many messages the page has posted
    microtasks,      \* the continuations whose awaited promise is resolved
    active,          \* the getBestMove calls that have begun and not returned
    event,           \* what the last step of the worker did
    firstNode,       \* the context at the first search of the last request
    posted,          \* how many messages the worker has posted to the page
    evaluated,       \* the evaluatePosition calls made on the position analysed
    timing,          \* getBestMove's time limit and what it was allocated from
    unread           \* nodes visited since Date.now() was last read, up to CheckPeriod

boardVars == << pieces, currentPlayer, pc, allCaptures, moves, move,
                newPosition, attackers, pins, safety >>

\* ------------------------------------------------------------------------
\* Initial positions
\* ------------------------------------------------------------------------
EmptyGrid == [sq \in Squares |-> NONE]

NoPosition == [pieces |-> EmptyGrid, currentPlayer |-> PLAYER_WHITE]

\* squares the side to move may start on, and squares its opponent may start on
OwnSquares == { <<4, 5>>, <<5, 4>>, <<6, 3>>, <<1, 2>> }

EnemySquares == { <<3, 4>>, <<3, 6>>, <<1, 4>>, <<1, 6>>, <<4, 5>>, <<0, 5>> }

\* the opponent's piece that may be a king
EnemyKingSquare == <<3, 6>>

\* White to move: own pieces are white men or kings, the opponent's are black
\* men, one of which (kingAt) may be a king
WhiteLayout(own, kings, enemies, kingAt) ==
    [sq \in Squares |->
        IF sq \in own THEN (IF sq \in kings THEN WHITE_KING ELSE WHITE)
        ELSE IF sq \in enemies THEN (IF sq = kingAt THEN BLACK_KING ELSE BLACK)
        ELSE NONE]

\* the same position seen from the other side: the board turned by 180 degrees
\* and the colours exchanged
SwapColour(piece) ==
    IF piece = WHITE THEN BLACK
    ELSE IF piece = BLACK THEN WHITE
    ELSE IF piece = WHITE_KING THEN BLACK_KING
    ELSE IF piece = BLACK_KING THEN WHITE_KING
    ELSE NONE

Mirror(pcs) ==
    [sq \in Squares |->
        SwapColour(pcs[<<BOARD_SIZE - 1 - sq[1], BOARD_SIZE - 1 - sq[2]>>])]

InitialLayouts ==
    { WhiteLayout(t[1], t[2], t[3], t[4]) :
        t \in { u \in (SUBSET OwnSquares) \X (SUBSET OwnSquares)
                      \X (SUBSET EnemySquares) \X {EnemyKingSquare, NoSquare} :
                /\ Cardinality(u[1]) >= 1
                /\ Cardinality(u[1]) <= MaxOwn
                /\ u[2] \subseteq u[1]
                /\ Cardinality(u[3]) <= MaxEnemies
                /\ u[1] \cap u[3] = {}
                /\ u[4] \in u[3] \cup {NoSquare} } }

ttVars == << table, accessCount, maxSize, ret >>

searchVars == << evalCache, nodeCount, searchAborted, positionHistory,
                killerMoves, historyTable, openingBook, clock, stack, spc,
                gbm, returned, returns, statistics, inbox, sent, microtasks,
                active, event, firstNode, posted, evaluated, timing, unread >>

workerVars == << statistics, inbox, sent, microtasks, active, event, firstNode,
                posted >>

vars == << pieces, currentPlayer, pc, allCaptures, moves, move,
           newPosition, attackers, pins, table, accessCount, maxSize, ret,
           safety, evalCache, nodeCount, searchAborted, positionHistory,
           killerMoves, historyTable, openingBook, clock, stack, spc, gbm,
           returned, returns, statistics, inbox, sent, microtasks, active,
           event, firstNode, posted, evaluated, timing,
           unread >>

NoReturn ==
    [op |-> "none", result |-> NullResult, outcome |-> "none", value |-> 0]

\* a fresh table, as createTranspositionTable leaves it
FreshTable(cap) ==
    /\ table = << >>
    /\ accessCount = 0
    /\ maxSize = cap
    /\ ret = NoReturn

\* the AI as its constructor leaves it (ai.core, lines 476-505)
Constructed ==
    /\ evalCache = {}
    /\ nodeCount = 0
    /\ searchAborted = FALSE
    /\ positionHistory = << >>
    /\ killerMoves = NoKillers
    /\ historyTable = {}

SearchIdle ==
    /\ clock = 0
    /\ stack = << >>
    /\ spc = "idle"
    /\ gbm = NoLocals
    /\ returned = NotReturned
    /\ returns = << >>
    /\ evaluated = NotEvaluated
    /\ timing = NoTiming
    /\ unread = 0

\* the worker before its first message
WorkerIdle ==
    /\ statistics = NoStatistics
    /\ inbox = << >>
    /\ sent = 0
    /\ microtasks = << >>
    /\ active = 0
    /\ event = NoEvent
    /\ firstNode = NoFirstNode
    /\ posted = 0

\* no book is set, no search has been asked for
NoSearch ==
    /\ Constructed
    /\ openingBook = FALSE
    /\ SearchIdle
    /\ WorkerIdle

NoVerdict == [op |-> "none", see |-> 0, safe |-> TRUE]

BoardIdle ==
    /\ pc = "start"
    /\ allCaptures = << >>
    /\ moves = << >>
    /\ move = NoMove
    /\ newPosition = NoPosition
    /\ attackers = -1
    /\ pins = << >>
    /\ safety = NoVerdict

\* a position to analyse, and the AI's table as its constructor leaves it
BoardInit ==
    /\ \E layout \in InitialLayouts :
          \/ pieces = layout /\ currentPlayer = PLAYER_WHITE
          \/ pieces = Mirror(layout) /\ currentPlayer = PLAYER_BLACK
    /\ BoardIdle
    /\ FreshTable(2000000)
    /\ NoSearch

\* ------------------------------------------------------------------------
\* Operations on a position
\* ------------------------------------------------------------------------
GenerateMoves ==
    /\ pc = "start"
    /\ allCaptures' = AllCaptures(pieces, currentPlayer)
    /\ moves' = generateMoves(pieces, currentPlayer)
    /\ pc' = "generated"
    /\ attackers' = -1
    /\ pins' = << >>
    /\ UNCHANGED << pieces, currentPlayer, move, newPosition,
                 table, accessCount, maxSize, ret, safety, searchVars >>

MakeMove ==
    /\ pc = "generated"
    /\ \E i \in 1 .. Len(moves) :
          /\ move' = moves[i]
          /\ newPosition' = makeMove(pieces, currentPlayer, moves[i])
    /\ pc' = "moved"
    /\ UNCHANGED << pieces, currentPlayer, allCaptures, moves, attackers, pins,
                 table, accessCount, maxSize, ret, safety, searchVars >>

CountAttackers ==
    /\ pc = "start"
    /\ \E sq \in Squares :
          /\ pieces[sq] # NONE
          /\ LET attackingPlayer == IF isPlayerPiece(pieces[sq], PLAYER_WHITE)
                                    THEN PLAYER_BLACK ELSE PLAYER_WHITE
             IN  /\ attackers' = countAttackers(pieces, sq, attackingPlayer)
                 /\ pieces' = GridAfterCountAttackers(pieces, sq, attackingPlayer)
    /\ pins' = << >>
    /\ UNCHANGED << currentPlayer, pc, allCaptures, moves, move, newPosition,
                 table, accessCount, maxSize, ret, safety, searchVars >>

DetectPinsAndSkewers ==
    /\ pc = "start"
    /\ LET r == detectPinsAndSkewers(pieces, currentPlayer)
       IN  /\ pieces' = r.pieces
           /\ pins' = r.pins
    /\ attackers' = -1
    /\ UNCHANGED << currentPlayer, pc, allCaptures, moves, move, newPosition,
                 table, accessCount, maxSize, ret, safety, searchVars >>

\* staticExchangeEvaluation(ai, position, move) for a generated move
StaticExchangeEvaluation ==
    /\ pc = "generated"
    /\ \E i \in 1 .. Len(moves) :
          /\ move' = moves[i]
          /\ safety' = [op |-> "see",
                        see |-> staticExchangeEvaluation(pieces, currentPlayer, moves[i]),
                        safe |-> TRUE]
    /\ pc' = "judged"
    /\ UNCHANGED << pieces, currentPlayer, allCaptures, moves, newPosition,
                 attackers, pins, table, accessCount, maxSize, ret, searchVars >>

\* isMoveReallySafe(ai, position, move) for a generated move
IsMoveReallySafe ==
    /\ pc = "generated"
    /\ \E i \in 1 .. Len(moves) :
          /\ move' = moves[i]
          /\ safety' = [op |-> "safe", see |-> 0,
                        safe |-> isMoveReallySafe(pieces, currentPlayer, moves[i])]
    /\ pc' = "judged"
    /\ UNCHANGED << pieces, currentPlayer, allCaptures, moves, newPosition,
                 attackers, pins, table, accessCount, maxSize, ret, searchVars >>

BoardNext ==
    \/ GenerateMoves
    \/ MakeMove
    \/ CountAttackers
    \/ DetectPinsAndSkewers
    \/ StaticExchangeEvaluation
    \/ IsMoveReallySafe

\* the move generator on its own: the AI's table stays as constructed
SpecBoard == BoardInit /\ [][BoardNext]_vars

\* ------------------------------------------------------------------------
\* Operations on the transposition table
\* ------------------------------------------------------------------------
\* no entry grows older than MaxAge in the explored tables
CleanupInBounds(tbl) == \A i \in 1 .. Len(tbl) : tbl[i].age < MaxAge

StoreInBounds == Len(table) >= maxSize => CleanupInBounds(table)

Store ==
    /\ accessCount < MaxAccess
    /\ StoreInBounds
    /\ \E c \in StoreCalls(table) :
          LET r == store(table, accessCount, maxSize, c.key, c.depth, c.value,
                         c.type, c.bestMove)
          IN  /\ table' = r.table
              /\ accessCount' = r.accessCount
    /\ ret' = NoReturn
    /\ UNCHANGED << maxSize, boardVars, searchVars >>

Windows == { w \in AlphaBeta \X AlphaBeta : w[1] < w[2] }

\* a negamax node with remaining depth >= 1 reaches its table probe
Probe ==
    /\ accessCount < MaxAccess
    /\ \E key \in SearchKeys, depth \in 1 .. (MaxDepth + 1), w \in Windows :
          LET r == NegamaxProbe(table, accessCount, key, depth, w[1], w[2])
          IN  /\ table' = r.table
              /\ accessCount' = r.accessCount
              /\ ret' = [op |-> "negamax", result |-> r.result,
                         outcome |-> r.outcome, value |-> r.value]
    /\ UNCHANGED << maxSize, boardVars, searchVars >>

Cleanup ==
    /\ CleanupInBounds(table)
    /\ table' = cleanup(table)
    /\ ret' = NoReturn
    /\ UNCHANGED << accessCount, maxSize, boardVars, searchVars >>

Clear ==
    /\ table' = << >>
    /\ accessCount' = 0
    /\ ret' = NoReturn
    /\ UNCHANGED << maxSize, boardVars, searchVars >>

TableInit ==
    /\ \E cap \in 1 .. MaxCapacity : FreshTable(cap)
    /\ pieces = EmptyGrid
    /\ currentPlayer = PLAYER_WHITE
    /\ BoardIdle
    /\ NoSearch

TableNext ==
    \/ Store
    \/ Probe
    \/ Cleanup
    \/ Clear

SpecTable == TableInit /\ [][TableNext]_vars

\* ------------------------------------------------------------------------
\* One getBestMove call (ai.search) on a constructed AI
\* ------------------------------------------------------------------------
\* root positions, White to move
RootLayouts ==
    { Layout({<<1, 2>>}, {<<0, 1>>, <<0, 3>>}),
      Layout({<<4, 5>>}, {<<3, 4>>, <<3, 6>>, <<1, 4>>, <<1, 6>>}),
      Layout({<<5, 0>>}, {<<0, 1>>}),
      Layout({<<9, 8>>, <<5, 4>>}, {<<8, 9>>}),
      Layout({<<5, 4>>, <<9, 0>>}, {<<4, 3>>, <<4, 5>>}),
      Layout({<<5, 8>>, <<6, 7>>}, {<<4, 9>>}) }

SearchInit ==
    /\ pieces \in RootLayouts
    /\ currentPlayer = PLAYER_WHITE
    /\ BoardIdle
    /\ FreshTable(2000000)
    /\ Constructed
    /\ openingBook \in BOOLEAN
    /\ SearchIdle
    /\ WorkerIdle

\* the moves ai.openingBook.getMove may hand back: none (null), a move of the
\* list, or a quiet step of a piece of the side to move
BookResponses(pcs, player, moveList) ==
    {NoMove} \cup SeqToSet(moveList)
    \cup SeqToSet(CollectNormalMoves(pcs, player, PlayerSquares(pcs, player), 1))

\* quickTacticalScan (lines 463-484): the results it can give. With several
\* captures the one evaluateCaptureSequence ranks first is forced when it
\* leads the second by more than 100
TacticalResults(moveList) ==
    LET IsCapture(m) == Len(m.captures) > 0
        captures == SelectSeq(moveList, IsCapture)
    IN  IF Len(captures) = 0 THEN {[forced |-> FALSE, move |-> NoMove]}
        ELSE IF Len(captures) = 1 THEN {[forced |-> TRUE, move |-> captures[1]]}
        ELSE {[forced |-> FALSE, move |-> NoMove]}
             \cup { [forced |-> TRUE, move |-> m] : m \in SeqToSet(captures) }

InitialLocalsMutant(moveList) ==
    [NoLocals EXCEPT !.depth = 1,
                     !.maxDepth = IF Len(moveList) <= 3 THEN MaxSearchDepth + 1
                                  ELSE MaxSearchDepth,
                     !.bestMove = moveList[Len(moveList)],
                     !.bestScore = -SearchInfinity]

\* lines 72-76 and 91-96: maxDepth, one deeper for a root with at most three
\* moves, bestMove = moves[0], bestScore = -Infinity, and depth 1 to start
InitialLocals(moveList) ==
    [NoLocals EXCEPT !.depth = 1,
                     !.maxDepth = IF Len(moveList) <= 3 THEN MaxSearchDepth + 1
                                  ELSE MaxSearchDepth,
                     !.bestMove = moveList[1],
                     !.bestScore = -SearchInfinity]

\* lines 42-94 of getBestMove, moveList being ai.generateMoves(position): the
\* degenerate roots, the forced capture, the book, the start of the deepening
Dispatch(moveList) ==
    /\ moves' = moveList
    /\ IF Len(moveList) = 0
       THEN /\ returned' = Returned(NoMove, "none")
            /\ spc' = "done"
            /\ gbm' = gbm
       ELSE IF Len(moveList) = 1
       THEN /\ returned' = Returned(moveList[1], "single")
            /\ spc' = "done"
            /\ gbm' = gbm
       ELSE \E tacticalResult \in TacticalResults(moveList) :
              IF tacticalResult.forced
              THEN /\ returned' = Returned(tacticalResult.move, "forced")
                   /\ spc' = "done"
                   /\ gbm' = gbm
              ELSE \E bookMove \in IF openingBook
                                   THEN BookResponses(pieces, currentPlayer, moveList)
                                   ELSE {NoMove} :
                     IF bookMove # NoMove
                     THEN /\ returned' = Returned(bookMove, "book")
                          /\ spc' = "done"
                          /\ gbm' = gbm
                     ELSE /\ returned' = returned
                          /\ spc' = "deepening"
                          /\ gbm' = InitialLocals(moveList)

\* lines 34-94: the reset, then the rest on the legal moves of the position
GetBestMove ==
    /\ spc = "idle"
    /\ nodeCount' = 0
    /\ searchAborted' = FALSE
    /\ positionHistory' = << >>
    /\ killerMoves' = NoKillers
    /\ Dispatch(generateMoves(pieces, currentPlayer))
    /\ UNCHANGED << pieces, currentPlayer, pc, allCaptures, move, newPosition,
                    attackers, pins, safety, ttVars, evalCache, historyTable,
                    openingBook, clock, stack, returns >>
    /\ unread' = 0
    /\ UNCHANGED << workerVars, evaluated, timing >>

\* lines 96-112: the head of the iterative deepening and the call of
\* searchBestMove; the clock is read at line 97
Deepen ==
    /\ spc = "deepening"
    /\ \E now \in clock .. 2 :
          /\ clock' = now
          /\ IF gbm.depth > gbm.maxDepth \/ now >= 1 \/ searchAborted
             THEN /\ spc' = "final"
                  /\ UNCHANGED << gbm, stack >>
             ELSE LET narrow == gbm.depth > 3 /\ gbm.lastScore < Points(1000)
                                              /\ gbm.lastScore > -Points(1000)
                      alpha == IF narrow THEN gbm.lastScore - Points(50) ELSE -SearchInfinity
                      beta == IF narrow THEN gbm.lastScore + Points(50) ELSE SearchInfinity
                  IN  /\ gbm' = [gbm EXCEPT !.alpha = alpha, !.beta = beta,
                                            !.result = NoResult]
                      /\ stack' = << Frame("searchBestMove",
                                           Position(pieces, currentPlayer, << >>),
                                           gbm.depth, alpha, beta, 0, 0) >>
                      /\ spc' = "searching"
    /\ returns' = << >>
    /\ UNCHANGED << boardVars, ttVars, nodeCount, searchAborted, positionHistory,
                    killerMoves, historyTable, evalCache, openingBook, returned >>
    /\ unread' = 0
    /\ UNCHANGED << workerVars, evaluated, timing >>

\* the effect of a step of the running search: the stack, the table, the
\* killer and history tables, and searchBestMove's result when it returns
Effect(u) ==
    /\ stack' = u.stack
    /\ table' = u.ctx.table
    /\ accessCount' = u.ctx.accessCount
    /\ killerMoves' = u.ctx.killerMoves
    /\ historyTable' = u.ctx.historyTable
    /\ returns' = u.returns
    /\ IF u.result.none
       THEN UNCHANGED << gbm, spc >>
       ELSE IF spc = "searching"
       THEN /\ gbm' = [gbm EXCEPT !.result = u.result]
            /\ spc' = "awaited"
       ELSE /\ gbm' = [gbm EXCEPT
                         !.result = IF u.result.move # NoMove
                                    THEN [@ EXCEPT !.move = u.result.move,
                                                   !.score = u.result.score]
                                    ELSE @]
            /\ spc' = "reawaited"

\* a call is entered: its outcome out.r, what it did to the memo of
\* evaluatePosition, and whether it set ai.searchAborted
Enter(out) ==
    /\ evalCache' = out.evalCache
    /\ searchAborted' = (searchAborted \/ out.aborted)
    /\ Effect(Unwind(stack, out.r, << >>))

Searching == spc \in {"searching", "retrying"} /\ stack # << >>

Ctx == Context(table, accessCount, killerMoves, historyTable)

\* searchBestMove is entered: lines 204-207
SearchBestMove ==
    /\ Searching
    /\ Last(stack).fn = "searchBestMove"
    /\ Last(stack).at = "entry"
    /\ \E first \in SeqToSet(generateMoves(pieces, currentPlayer)) :
          Effect(Unwind(stack, RootEntry(Last(stack), first, Ctx), << >>))
    /\ UNCHANGED << boardVars, maxSize, ret, nodeCount, searchAborted,
                    positionHistory, evalCache, openingBook, clock, returned >>
    /\ UNCHANGED << workerVars, evaluated, timing, unread >>

\* the head of searchBestMove's loop: the time check of line 213, then the
\* search of the next root move
SearchNextRootMove ==
    /\ Searching
    /\ Last(stack).fn = "searchBestMove"
    /\ Last(stack).at = "loop"
    /\ \E now \in clock .. 2 :
          /\ clock' = now
          /\ LET f == Last(stack)
             IN  IF now = 2 \/ searchAborted
                 THEN Effect(Unwind(stack, RootFinish(f, TRUE, Ctx), << >>))
                 ELSE \E m \in IF f.i = 0 THEN {f.first} ELSE f.remaining :
                        Effect(Unwind(stack, RootCall(f, m, Ctx), << >>))
    /\ UNCHANGED << boardVars, maxSize, ret, nodeCount, searchAborted,
                    positionHistory, evalCache, openingBook, returned >>
    /\ unread' = 0
    /\ UNCHANGED << workerVars, evaluated, timing >>

\* negamax is entered: lines 267-325
Negamax ==
    /\ Searching
    /\ Last(stack).fn = "negamax"
    /\ Last(stack).at = "entry"
    /\ nodeCount' = nodeCount + 1
    /\ \E now \in clock .. 2 :
          /\ clock' = IF (nodeCount + 1) % CheckPeriod = 0 THEN now ELSE clock
          /\ Enter(NegamaxEntry(Last(stack), nodeCount + 1, now = 2, evalCache, Ctx))
    /\ UNCHANGED << boardVars, maxSize, ret, positionHistory, openingBook, returned >>
    /\ unread' = IF (nodeCount + 1) % CheckPeriod = 0
                  /\ Last(stack).recursionDepth <= maxRecursionDepth
               THEN 0 ELSE Min(unread + 1, CheckPeriod)
    /\ UNCHANGED << workerVars, evaluated, timing >>

\* the head of negamax's loop: the search of the next ordered move
NegamaxNextMove ==
    /\ Searching
    /\ Last(stack).fn = "negamax"
    /\ Last(stack).at = "loop"
    /\ \E m \in Last(stack).remaining :
          Effect(Unwind(stack, NegamaxCall(Last(stack), m, Ctx), << >>))
    /\ UNCHANGED << boardVars, maxSize, ret, nodeCount, searchAborted,
                    positionHistory, evalCache, openingBook, clock, returned >>
    /\ UNCHANGED << workerVars, evaluated, timing, unread >>

\* quiescenceSearch is entered: lines 398-433
QuiescenceSearch ==
    /\ Searching
    /\ Last(stack).fn = "quiescence"
    /\ Last(stack).at = "entry"
    /\ nodeCount' = nodeCount + 1
    /\ Enter(QuiescenceEntry(Last(stack), evalCache, Ctx))
    /\ UNCHANGED << boardVars, maxSize, ret, positionHistory, openingBook, clock,
                    returned >>
    /\ unread' = Min(unread + 1, CheckPeriod)
    /\ UNCHANGED << workerVars, evaluated, timing >>

\* the head of quiescenceSearch's loop: the next capture
QuiescenceNextCapture ==
    /\ Searching
    /\ Last(stack).fn = "quiescence"
    /\ Last(stack).at = "loop"
    /\ \E m \in Last(stack).remaining :
          Effect(Unwind(stack, QuiescenceCall(Last(stack), m, Ctx), << >>))
    /\ UNCHANGED << boardVars, maxSize, ret, nodeCount, searchAborted,
                    positionHistory, evalCache, openingBook, clock, returned >>
    /\ UNCHANGED << workerVars, evaluated, timing, unread >>

\* lines 128-162: what getBestMove does with the result of a depth
Conclude ==
    LET result == gbm.result
        bestScore == result.score
        decisive == bestScore > Points(5000) \/ bestScore < -Points(5000)
        extend == bestScore > Points(1000) /\ gbm.depth < gbm.maxDepth - 2
    IN  IF result.timeout \/ searchAborted
        THEN /\ spc' = "final"
             /\ UNCHANGED << gbm, clock >>
        ELSE IF result.move # NoMove
        THEN /\ gbm' = [gbm EXCEPT !.bestMove = result.move,
                                   !.bestScore = bestScore,
                                   !.lastScore = bestScore,
                                   !.completed = gbm.depth,
                                   !.depth = IF decisive THEN @ ELSE @ + 1]
             /\ spc' = IF decisive THEN "final" ELSE "deepening"
             /\ IF ~decisive /\ extend
                THEN clock' \in 0 .. clock
                ELSE clock' = clock
        ELSE /\ gbm' = [gbm EXCEPT !.depth = @ + 1]
             /\ spc' = "deepening"
             /\ clock' = clock

\* after the await of line 112: the re-search of lines 115-126, or the rest
\* of the loop body
AfterSearch ==
    /\ spc = "awaited"
    /\ IF gbm.result.score <= gbm.alpha \/ gbm.result.score >= gbm.beta
       THEN /\ stack' = << Frame("searchBestMove",
                                 Position(pieces, currentPlayer, << >>),
                                 gbm.depth, -SearchInfinity, SearchInfinity, 0, 0) >>
            /\ spc' = "retrying"
            /\ UNCHANGED << gbm, clock >>
       ELSE /\ Conclude
            /\ stack' = stack
    /\ returns' = << >>
    /\ UNCHANGED << boardVars, ttVars, nodeCount, searchAborted, positionHistory,
                    killerMoves, historyTable, evalCache, openingBook, returned >>
    /\ UNCHANGED << workerVars, evaluated, timing, unread >>

\* after the await of line 121
AfterRetry ==
    /\ spc = "reawaited"
    /\ Conclude
    /\ returns' = << >>
    /\ UNCHANGED << boardVars, ttVars, nodeCount, searchAborted, positionHistory,
                    killerMoves, historyTable, evalCache, openingBook, stack,
                    returned >>
    /\ UNCHANGED << workerVars, evaluated, timing, unread >>

\* lines 166-177: the best move when it is safe or no move is; otherwise the
\* safe move quickEvaluateMove ranks first, which may be any of them
SafeChoices(bestMove, safe, safeMoves) ==
    IF ~safe /\ Len(safeMoves) > 0 THEN SeqToSet(safeMoves) ELSE {bestMove}

\* lines 165-189: the final safety check and the return
FinalSafetyCheck ==
    /\ spc = "final"
    /\ LET Safe(m) == isMoveReallySafe(pieces, currentPlayer, m)
       IN  \E m \in SafeChoices(gbm.bestMove, Safe(gbm.bestMove), SelectSeq(moves, Safe)) :
              returned' = Returned(m, "search")
    /\ spc' = "done"
    /\ returns' = << >>
    /\ UNCHANGED << boardVars, ttVars, nodeCount, searchAborted, positionHistory,
                    killerMoves, historyTable, evalCache, openingBook, clock,
                    stack, gbm >>
    /\ UNCHANGED << workerVars, evaluated, timing, unread >>

SearchNext ==
    \/ GetBestMove
    \/ Deepen
    \/ SearchBestMove
    \/ SearchNextRootMove
    \/ Negamax
    \/ NegamaxNextMove
    \/ QuiescenceSearch
    \/ QuiescenceNextCapture
    \/ AfterSearch
    \/ AfterRetry
    \/ FinalSafetyCheck

SpecSearch == SearchInit /\ [][SearchNext]_vars

\* ------------------------------------------------------------------------
\* The worker: messages, handlers and their continuations (ai.core)
\* ------------------------------------------------------------------------
WorkerInit ==
    /\ pieces = EmptyGrid
    /\ currentPlayer = PLAYER_WHITE
    /\ BoardIdle
    /\ FreshTable(2000000)
    /\ NoSearch

\* the AI instance
AI ==
    Instance(table, accessCount, evalCache, nodeCount, searchAborted,
             positionHistory, killerMoves, statistics)

Becomes(a) ==
    /\ table' = a.table
    /\ accessCount' = a.accessCount
    /\ evalCache' = a.evalCache
    /\ nodeCount' = a.nodeCount
    /\ searchAborted' = a.searchAborted
    /\ positionHistory' = a.positionHistory
    /\ killerMoves' = a.killerMoves
    /\ statistics' = a.statistics

\* what the handlers of the worker leave alone
restVars ==
    << boardVars, maxSize, ret, historyTable, openingBook, clock, stack, spc,
       gbm, returned, returns, evaluated, timing, unread >>

\* the page posts a message to the worker
PostMessage ==
    /\ sent < MaxMessages
    /\ \E type \in MessageTypes : inbox' = Append(inbox, type)
    /\ sent' = sent + 1
    /\ UNCHANGED << table, accessCount, evalCache, nodeCount, searchAborted,
                    positionHistory, killerMoves, statistics, microtasks,
                    active, event, firstNode, posted, restVars >>

Delivered(type) ==
    /\ NextTask(inbox, microtasks) = "message"
    /\ Head(inbox) = type
    /\ inbox' = Tail(inbox)
    /\ sent' = sent

\* case 'setDifficulty' (lines 736-743)
SetDifficulty ==
    /\ Delivered("setDifficulty")
    /\ Becomes(ClearCaches(AI))
    /\ event' = Event("clear", active)
    /\ posted' = posted + 1
    /\ UNCHANGED << microtasks, active, firstNode, restVars >>

\* case 'abort' (lines 754-756)
Abort ==
    /\ Delivered("abort")
    /\ Becomes(abortSearch(AI))
    /\ event' = Event("abort", active)
    /\ UNCHANGED << microtasks, active, firstNode, posted, restVars >>

\* case 'newGame' (lines 758-760)
NewGame ==
    /\ Delivered("newGame")
    /\ Becomes(resetForNewGame(AI))
    /\ event' = Event("newGame", active)
    /\ UNCHANGED << microtasks, active, firstNode, posted, restVars >>

\* case 'getMove' (line 746): getMove up to its await, that is getBestMove up
\* to its first await or, without a search, to its return
GetMove ==
    /\ Delivered("getMove")
    /\ event' = Event("begin", active)
    /\ posted' = posted
    /\ LET found == AI
           context == CleanContext(ResetSearchState(found))
       IN  \/ /\ Becomes(context)
              /\ microtasks' = Append(microtasks, AfterGetBestMove)
              /\ firstNode' = NoFirstNode
              /\ active' = active
           \/ \E a \in SearchOutcomes(context), timeout \in BOOLEAN :
                 /\ Becomes(a)
                 /\ microtasks' = Append(microtasks, AfterSearchBestMove(1, timeout, FALSE))
                 /\ firstNode' = FirstNode(found, context)
                 /\ active' = active + 1
    /\ UNCHANGED restVars

Continued(fn) ==
    /\ NextTask(inbox, microtasks) = "microtask"
    /\ Head(microtasks).fn = fn
    /\ event' = Event("continue", active)
    /\ UNCHANGED << inbox, sent, firstNode, restVars >>

\* getBestMove after line 112: the re-search of lines 115-126
Research ==
    /\ Continued("getBestMove")
    /\ ~Head(microtasks).retried
    /\ \E a \in SearchOutcomes(AI) :
          /\ Becomes(a)
          /\ microtasks' = Append(Tail(microtasks),
                                  AfterSearchBestMove(Head(microtasks).depth,
                                                      Head(microtasks).timeout, TRUE))
    /\ UNCHANGED << active, posted >>

\* getBestMove after line 112 or 121: the next depth (lines 128-163, 96-112)
NextDepth ==
    /\ Continued("getBestMove")
    /\ ~Head(microtasks).timeout
    /\ ~searchAborted
    /\ Head(microtasks).depth < MaxWorkerDepth
    /\ \E a \in SearchOutcomes(AI), timeout \in BOOLEAN :
          /\ Becomes(a)
          /\ microtasks' = Append(Tail(microtasks),
                                  AfterSearchBestMove(Head(microtasks).depth + 1,
                                                      timeout, FALSE))
    /\ UNCHANGED << active, posted >>

\* getBestMove leaves its loop (lines 98, 128, 150 or the last depth) and
\* returns its move
ReturnBestMove ==
    /\ Continued("getBestMove")
    /\ Becomes(AI)
    /\ microtasks' = Append(Tail(microtasks), AfterGetBestMove)
    /\ active' = active - 1
    /\ posted' = posted

\* getMove after line 580
ReturnMove ==
    /\ Continued("getMove")
    /\ Becomes(UpdateStatistics(AI))
    /\ microtasks' = Append(Tail(microtasks), AfterGetMove)
    /\ UNCHANGED << active, posted >>

\* the handler after line 746: the moveResult message
PostMoveResult ==
    /\ Continued("onmessage")
    /\ Becomes(AI)
    /\ microtasks' = Tail(microtasks)
    /\ posted' = posted + 1
    /\ active' = active

WorkerNext ==
    \/ PostMessage
    \/ SetDifficulty
    \/ Abort
    \/ NewGame
    \/ GetMove
    \/ Research
    \/ NextDepth
    \/ ReturnBestMove
    \/ ReturnMove
    \/ PostMoveResult

SpecWorker == WorkerInit /\ [][WorkerNext]_vars

\* ------------------------------------------------------------------------
\* The evaluation and its memo: evaluatePosition on a position, on the same
\* position with the other side to move (negamax's null move, the opponent's
\* view of evaluateMobilityDifferential) and on the positions one move away
\* ------------------------------------------------------------------------
Dark(row) == { <<row, c>> : c \in { k \in Rows : isDarkSquare(row, k) } }

\* the starting position, and a position of twelve men
StartLayout ==
    Layout(Dark(6) \cup Dark(7) \cup Dark(8) \cup Dark(9),
           Dark(0) \cup Dark(1) \cup Dark(2) \cup Dark(3))

MiddleLayout ==
    Layout(Dark(7) \cup {<<6, 9>>}, Dark(2) \cup {<<3, 0>>})

KingLayout(whiteKings, blackKings, blackMen) ==
    [sq \in Squares |-> IF sq \in whiteKings THEN WHITE_KING
                        ELSE IF sq \in blackKings THEN BLACK_KING
                        ELSE IF sq \in blackMen THEN BLACK ELSE NONE]

\* the moves of a position that are tried
MaxPlayed == 2

EvalLayouts ==
    RootLayouts
    \cup { StartLayout, MiddleLayout,
           KingLayout({<<4, 5>>}, {<<6, 5>>}, {<<9, 0>>}),
           KingLayout({<<4, 5>>}, {<<4, 7>>}, {}),
           KingLayout({<<4, 5>>, <<9, 0>>}, {<<0, 9>>}, {}) }

EvalInit ==
    /\ pieces \in EvalLayouts
    /\ currentPlayer = PLAYER_WHITE
    /\ BoardIdle
    /\ FreshTable(2000000)
    /\ NoSearch

\* evaluatePosition(ai, position) on the position analysed
EvaluatePosition ==
    /\ LET pos == Position(pieces, currentPlayer, << >>)
           r == evaluatePosition(evalCache, pos)
       IN  /\ evalCache' = r.evalCache
           /\ evaluated' =
                 [last |-> [called |-> TRUE,
                            pos |-> [pieces |-> pieces, currentPlayer |-> currentPlayer],
                            score |-> r.score,
                            hit |-> Cached(evalCache, generateKey(pos))],
                  seen |-> evaluated.seen
                           \cup {[pieces |-> pieces, currentPlayer |-> currentPlayer,
                                  score |-> r.score]}]
    /\ UNCHANGED << boardVars, ttVars, nodeCount, searchAborted, positionHistory,
                    killerMoves, historyTable, openingBook, clock, stack, spc,
                    gbm, returned, returns, workerVars, timing, unread >>

\* the same grid with the other side to move (ai.search lines 310-313,
\* ai.evaluation lines 419-422); explored on the position given, not on the
\* positions a move away
SwitchSide ==
    /\ pc = "start"
    /\ currentPlayer' = Opponent(currentPlayer)
    /\ UNCHANGED << pieces, pc, allCaptures, moves, move, newPosition, attackers,
                    pins, safety, ttVars, searchVars >>

FirstMoves(moveList) ==
    { moveList[k] : k \in { i \in 1 .. Len(moveList) : i <= MaxPlayed } }

\* the position after one legal move (makeMove), one of the first MaxPlayed
\* that generateMoves lists
PlayMove ==
    /\ pc = "start"
    /\ \E m \in FirstMoves(generateMoves(pieces, currentPlayer)) :
          /\ move' = m
          /\ pieces' = makeMove(pieces, currentPlayer, m).pieces
          /\ currentPlayer' = makeMove(pieces, currentPlayer, m).currentPlayer
    /\ pc' = "moved"
    /\ UNCHANGED << allCaptures, moves, newPosition, attackers, pins, safety,
                    ttVars, searchVars >>

\* setDifficulty clears the transposition table and the memo (lines 519-521)
ClearMemo ==
    /\ evalCache # {}
    /\ Becomes(ClearCaches(AI))
    /\ UNCHANGED << boardVars, maxSize, ret, historyTable, openingBook, clock,
                    stack, spc, gbm, returned, returns, inbox, sent, microtasks,
                    active, event, firstNode, posted, evaluated, timing, unread >>

EvalNext ==
    \/ EvaluatePosition
    \/ SwitchSide
    \/ PlayMove
    \/ ClearMemo

SpecEval == EvalInit /\ [][EvalNext]_vars

\* ------------------------------------------------------------------------
\* The time limit of a search (ai.search: allocateTime, getBestMove)
\* ------------------------------------------------------------------------
\* AI_PARAMS.MAX_DEPTH, by level
MAX_DEPTH == << 4, 6, 8, 10, 12, 14 >>

\* AI_PARAMS.ITERATIVE_DEEPENING.TIME_ALLOCATION, by level, in milliseconds
TIME_ALLOCATION == << 500, 1000, 2000, 4000, 8000, 15000 >>

\* AI_PARAMS.ITERATIVE_DEEPENING.COMPLEX_POSITION_MULTIPLIER, by level, in tenths
COMPLEX_POSITION_MULTIPLIER == << 10, 11, 12, 13, 15, 18 >>

Levels == 1 .. 6

\* times are kept in thousandths of a millisecond, which holds every product
\* of the factors below exactly
Thousandths == 1000

Milliseconds(ms) == ms * Thousandths

\* x times tenths / 10
Scaled(x, tenths) == (x * tenths) \div Tenths

\* ---- bounds of the time limit ----
\* how many times one call may lengthen its time limit (line 160)
MaxExtensions == 3

\* the move numbers, piece counts, longest captures and numbers of root moves
\* a call is made with
MoveNumbers == { 9, 10 }

PieceCounts == { 10, 11 }

CaptureLengths == 0 .. 3

RootMoveCounts == { 3, 4 }

\* allocateTime (lines 494-522); maxCaptures is 0 when there is no capture
allocateTime(level, moveNumber, totalPieces, maxCaptures, baseTime) ==
    LET opening == IF moveNumber < 10 THEN Scaled(baseTime, 7) ELSE baseTime
        endgame == IF totalPieces <= 10 THEN Scaled(opening, 15) ELSE opening
        complex == IF maxCaptures >= 3 THEN Scaled(endgame, 20)
                   ELSE IF maxCaptures >= 2 THEN Scaled(endgame, 15)
                   ELSE endgame
    IN  Min(Scaled(complex, COMPLEX_POSITION_MULTIPLIER[level]), baseTime * 3)

\* a getBestMove call that goes on to search: the level of the AI, the length
\* of the move history, and what the position gives countTotalPieces,
\* getAvailableCaptures and generateMoves
TimeInit ==
    /\ pieces = EmptyGrid
    /\ currentPlayer = PLAYER_WHITE
    /\ BoardIdle
    /\ FreshTable(2000000)
    /\ Constructed
    /\ openingBook = FALSE
    /\ clock = 0
    /\ stack = << >>
    /\ spc = "idle"
    /\ gbm = NoLocals
    /\ returned = NotReturned
    /\ returns = << >>
    /\ evaluated = NotEvaluated
    /\ unread = 0
    /\ WorkerIdle
    /\ \E level \in Levels, moveNumber \in MoveNumbers, totalPieces \in PieceCounts,
          maxCaptures \in CaptureLengths, rootMoves \in RootMoveCounts :
          timing = [NoTiming EXCEPT !.at = "start", !.level = level,
                                    !.moveNumber = moveNumber,
                                    !.totalPieces = totalPieces,
                                    !.maxCaptures = maxCaptures,
                                    !.rootMoves = rootMoves]

\* lines 68-70: the base time of the level and the call of allocateTime
AllocateTime ==
    /\ timing.at = "start"
    /\ LET baseTime == Milliseconds(TIME_ALLOCATION[timing.level])
       IN  timing' = [timing EXCEPT
                        !.at = "allocated",
                        !.baseTime = baseTime,
                        !.timeLimit = allocateTime(timing.level, timing.moveNumber,
                                                   timing.totalPieces,
                                                   timing.maxCaptures, baseTime)]
    /\ UNCHANGED << boardVars, ttVars, evalCache, nodeCount, searchAborted,
                    positionHistory, killerMoves, historyTable, openingBook, clock,
                    stack, spc, gbm, returned, returns, workerVars, evaluated,
                    unread >>

\* lines 72-77: the depth of the level, and one ply and half the time more
\* when the root has at most three moves
AdaptDepth ==
    /\ timing.at = "allocated"
    /\ timing' = [timing EXCEPT
                    !.at = "deepening",
                    !.depth = 1,
                    !.maxDepth = IF timing.rootMoves <= 3
                                 THEN MAX_DEPTH[timing.level] + 1
                                 ELSE MAX_DEPTH[timing.level],
                    !.timeLimit = IF timing.rootMoves <= 3
                                  THEN Scaled(@, 15) ELSE @]
    /\ UNCHANGED << boardVars, ttVars, evalCache, nodeCount, searchAborted,
                    positionHistory, killerMoves, historyTable, openingBook, clock,
                    stack, spc, gbm, returned, returns, workerVars, evaluated,
                    unread >>

\* lines 96-163, as far as the time limit goes: a depth that completes with a
\* move either ends the loop (a decisive score), lengthens the time limit (a
\* score over 1000 with more than two depths to go) or does neither
CompleteDepth ==
    /\ timing.at = "deepening"
    /\ timing.depth <= timing.maxDepth
    /\ \E outcome \in {"decisive", "winning", "other"} :
          timing' =
             IF outcome = "decisive"
             THEN [timing EXCEPT !.at = "done"]
             ELSE IF outcome = "winning" /\ timing.depth < timing.maxDepth - 2
                     /\ timing.extensions < MaxExtensions
             THEN [timing EXCEPT !.depth = @ + 1,
                                 !.extensions = @ + 1,
                                 !.timeLimit = Scaled(@, 12)]
             ELSE [timing EXCEPT !.depth = @ + 1]
    /\ UNCHANGED << boardVars, ttVars, evalCache, nodeCount, searchAborted,
                    positionHistory, killerMoves, historyTable, openingBook, clock,
                    stack, spc, gbm, returned, returns, workerVars, evaluated,
                    unread >>

TimeNext ==
    \/ AllocateTime
    \/ AdaptDepth
    \/ CompleteDepth

SpecTime == TimeInit /\ [][TimeNext]_vars

\* ------------------------------------------------------------------------
\* The last depth of a search: the window of getBestMove and the nodes under
\* the root, the searches below them summarised by the scores they return
\* ------------------------------------------------------------------------
\* ---- bounds of the last depth ----
\* the level of the AI: MAX_DEPTH[1] is 4, the least depth with an aspiration
\* window (depth > 3) and with late move reductions (depth >= 3 at ply 1)
DeepLevel == 1

\* the scores, in points, a search below ply 1 returns and a completed depth
\* leaves in lastScore
SubtreeScores == { Points(x) : x \in { -150, 30, 150 } }

LastScores == { Points(x) : x \in { 0 } }

\* a white man with two moves: after one Black has four quiet moves, after
\* the other a capture
DeepLayouts == { Layout({<<8, 1>>}, {<<6, 1>>, <<0, 5>>, <<0, 9>>}) }

\* getBestMove at the head of its loop (line 96) for its last depth: the
\* locals as the completed depths left them. The table holds nothing that the
\* nodes of this depth could use (the entries of shallower depths fall short
\* of the depth they ask for), and is left empty.
DeepInit ==
    /\ pieces \in DeepLayouts
    /\ currentPlayer = PLAYER_WHITE
    /\ pc = "start"
    /\ allCaptures = << >>
    /\ moves = generateMoves(pieces, currentPlayer)
    /\ move = NoMove
    /\ newPosition = NoPosition
    /\ attackers = -1
    /\ pins = << >>
    /\ safety = NoVerdict
    /\ FreshTable(2000000)
    /\ Constructed
    /\ openingBook = FALSE
    /\ clock = 0
    /\ stack = << >>
    /\ spc = "deepening"
    /\ \E lastScore \in LastScores, bestMove \in SeqToSet(moves) :
          gbm = [InitialLocals(moves) EXCEPT
                   !.maxDepth = IF Len(moves) <= 3 THEN MAX_DEPTH[DeepLevel] + 1
                                ELSE MAX_DEPTH[DeepLevel],
                   !.depth = IF Len(moves) <= 3 THEN MAX_DEPTH[DeepLevel] + 1
                             ELSE MAX_DEPTH[DeepLevel],
                   !.completed = IF Len(moves) <= 3 THEN MAX_DEPTH[DeepLevel]
                                 ELSE MAX_DEPTH[DeepLevel] - 1,
                   !.bestMove = bestMove,
                   !.bestScore = lastScore,
                   !.lastScore = lastScore]
    /\ returned = NotReturned
    /\ returns = << >>
    /\ evaluated = NotEvaluated
    /\ timing = NoTiming
    /\ unread = 0
    /\ WorkerIdle

\* the calls whose search is summarised by the score it returns: in the
\* first search of the depth those below ply 1, in the re-search of lines
\* 115-126, which goes over the same nodes, those at ply 1 as well
Summarised(f) == f.recursionDepth >= 1 \/ spc = "retrying"

\* negamax on the position after a root move
NegamaxAtPlyOne ==
    /\ stack # << >>
    /\ ~Summarised(Last(stack))
    /\ Negamax

\* a summarised negamax call, from its first line to its return: it visits
\* its node and returns one of the scores
Subtree ==
    /\ Searching
    /\ Last(stack).fn = "negamax"
    /\ Last(stack).at = "entry"
    /\ Summarised(Last(stack))
    /\ nodeCount' = nodeCount + 1
    /\ unread' = Min(unread + 1, CheckPeriod)
    /\ \E score \in SubtreeScores :
          Effect(Unwind(stack, ReturnValue(Last(stack), score, Ctx), << >>))
    /\ UNCHANGED << boardVars, maxSize, ret, evalCache, searchAborted,
                    positionHistory, openingBook, clock, returned >>
    /\ UNCHANGED << workerVars, evaluated, timing >>

DeepNext ==
    \/ Deepen
    \/ SearchBestMove
    \/ SearchNextRootMove
    \/ NegamaxAtPlyOne
    \/ NegamaxNextMove
    \/ Subtree
    \/ AfterSearch
    \/ AfterRetry
    \/ FinalSafetyCheck

SpecDeep == DeepInit /\ [][DeepNext]_vars

\* ------------------------------------------------------------------------
\* The killer moves and the history table over the beta cutoffs of a search
\* (ai.move-ordering: updateKillerMoves, updateHistory)
\* ------------------------------------------------------------------------
\* ---- bounds of the cutoffs ----
\* the remaining depth of the nodes that cut off: MAX_DEPTH[6]
HistoryDepth == 14

\* the nodes that cut off after the table was as given
MaxCutoffs == 6

\* the ply of the nodes that cut off
CutoffPly == 1

\* the quiet moves that cut off
HistoryMoves ==
    { [from |-> <<6, 1>>, to |-> <<5, 0>>, captures |-> << >>],
      [from |-> <<6, 1>>, to |-> <<5, 2>>, captures |-> << >>] }

\* the root moves that cut off: captures as well
RootCutoffMoves ==
    HistoryMoves \cup {[from |-> <<6, 1>>, to |-> <<4, 3>>, captures |-> << <<5, 2>> >>]}

\* the scores of these moves to begin with: no entry, or what 51 or 52
\* cutoffs at HistoryDepth add up to (9996 and 10192)
HistoryScores == { 0, 51 * HistoryDepth * HistoryDepth, 52 * HistoryDepth * HistoryDepth }

HistoryTables ==
    { { [key |-> getMoveKey(m), score |-> score[m]] :
           m \in { n \in HistoryMoves : score[n] # 0 } } :
      score \in [HistoryMoves -> HistoryScores] }

\* a search under way, the history table after the cutoffs so far
CutoffInit ==
    /\ pieces = EmptyGrid
    /\ currentPlayer = PLAYER_WHITE
    /\ BoardIdle
    /\ FreshTable(2000000)
    /\ evalCache = {}
    /\ nodeCount = 0
    /\ searchAborted = FALSE
    /\ positionHistory = << >>
    /\ killerMoves = NoKillers
    /\ historyTable \in HistoryTables
    /\ openingBook = FALSE
    /\ SearchIdle
    /\ WorkerIdle

\* lines 267 and 331-371 of negamax: a node is visited and ends by a beta
\* cutoff by a quiet move, with updateKillerMoves(move, ply, ai.killerMoves)
\* and updateHistory(move, depth, ai.historyTable)
NegamaxCutoff ==
    /\ nodeCount < MaxCutoffs
    /\ nodeCount' = nodeCount + 1
    /\ \E m \in HistoryMoves :
          /\ move' = m
          /\ killerMoves' = updateKillerMoves(m, CutoffPly, killerMoves)
          /\ historyTable' = updateHistory(m, HistoryDepth, historyTable)
    /\ UNCHANGED << pieces, currentPlayer, pc, allCaptures, moves, newPosition,
                    attackers, pins, safety, ttVars, evalCache, searchAborted,
                    positionHistory, openingBook, clock, stack, spc,
                    gbm, returned, returns, workerVars, evaluated, timing, unread >>

\* lines 219-247 of searchBestMove: a beta cutoff by a root move, capture or
\* not, with updateKillerMoves(move, 0, ai.killerMoves)
RootCutoff ==
    /\ \E m \in RootCutoffMoves :
          /\ move' = m
          /\ killerMoves' = updateKillerMoves(m, 0, killerMoves)
    /\ UNCHANGED << pieces, currentPlayer, pc, allCaptures, moves, newPosition,
                    attackers, pins, safety, ttVars, evalCache, nodeCount,
                    searchAborted, positionHistory, historyTable, openingBook,
                    clock, stack, spc, gbm, returned, returns, workerVars,
                    evaluated, timing, unread >>

CutoffNext ==
    \/ NegamaxCutoff
    \/ RootCutoff

SpecCutoffs == CutoffInit /\ [][CutoffNext]_vars

\* ------------------------------------------------------------------------
\* The recursion of negamax and quiescenceSearch
\* ------------------------------------------------------------------------
\* What a call does with its depth, recursionDepth and ply, with everything
\* that depends on the position (the number of legal moves, the captures, the
\* scores, the table and the clock) left open: a frame of the stack is a call
\* with its loop index i over its legal moves.
RecDepths == {3}

\* the recursionDepth of the call the recursion is followed from
RecStarts == {9}

\* the numbers of legal moves of a node: none, at most three, more than five
MoveCounts == {0, 1, 6}

\* the numbers of captures of a quiescence node
CaptureCounts == {0, 2}

Node(fn, depth, recursionDepth, ply) ==
    [fn |-> fn, depth |-> depth, recursionDepth |-> recursionDepth, ply |-> ply,
     at |-> "entry", stage |-> "none", legal |-> 0, i |-> 0, extended |-> FALSE]

nonStackVars ==
    << boardVars, ttVars, evalCache, nodeCount, searchAborted, positionHistory,
       killerMoves, historyTable, openingBook, clock, spc, gbm, returned,
       returns, workerVars, evaluated, timing, unread >>

RecInit ==
    /\ pieces = EmptyGrid
    /\ currentPlayer = PLAYER_WHITE
    /\ BoardIdle
    /\ FreshTable(2000000)
    /\ Constructed
    /\ openingBook = FALSE
    /\ clock = 0
    /\ spc = "idle"
    /\ gbm = NoLocals
    /\ returned = NotReturned
    /\ returns = << >>
    /\ evaluated = NotEvaluated
    /\ timing = NoTiming
    /\ unread = 0
    /\ WorkerIdle
    /\ \E depth \in RecDepths, recursionDepth \in RecStarts :
          stack = << Node("negamax", depth, recursionDepth, recursionDepth + 1) >>

\* a return statement: the frame is gone and its caller goes on
Returns(stk) ==
    IF Len(stk) = 1 THEN << >>
    ELSE [Front(stk) EXCEPT ![Len(stk) - 1].at = "resume"]

\* a call: the caller f waits for the frame of the call
Calls(stk, f, child) == Append(Append(Front(stk), f), child)

Continues(stk, f) == Append(Front(stk), f)

\* the end of an iteration of a loop over f.legal moves with no cutoff
NextIteration(stk, f) ==
    IF f.i + 1 >= f.legal THEN Returns(stk)
    ELSE Continues(stk, [f EXCEPT !.i = @ + 1, !.at = "loop", !.stage = "none"])

\* negamax from line 267 to line 325. early says which of the returns that
\* depend on the clock, the history or the table is taken
NegamaxEnters(stk, f, early, legal, hasCaptures) ==
    LET depth == ExtendedDepth(f.depth, legal, f.recursionDepth)
        R == IF depth > 6 THEN 3 ELSE 2
        f2 == [f EXCEPT !.depth = depth, !.legal = legal,
                        !.extended = depth # f.depth]
    IN  IF f.recursionDepth > maxRecursionDepth THEN Returns(stk)
        ELSE IF early \in {"abort", "repetition"} THEN Returns(stk)
        ELSE IF f.depth <= 0
        THEN Calls(stk, [f EXCEPT !.at = "wait", !.stage = "tail"],
                   Node("quiescence", QuiescenceDepth, f.recursionDepth, f.ply))
        ELSE IF early = "cached" THEN Returns(stk)
        ELSE IF legal = 0 THEN Returns(stk)
        ELSE IF depth >= 3 /\ f.recursionDepth > 0 /\ legal > 5 /\ ~hasCaptures
        THEN Calls(stk, [f2 EXCEPT !.at = "wait", !.stage = "nullmove"],
                   Node("negamax", depth - 1 - R, f.recursionDepth + 1, f.ply))
        ELSE Continues(stk, [f2 EXCEPT !.at = "loop"])

EnterNegamax ==
    /\ stack # << >>
    /\ Last(stack).fn = "negamax"
    /\ Last(stack).at = "entry"
    /\ \E early \in {"none", "abort", "repetition", "cached"}, legal \in MoveCounts,
          hasCaptures \in BOOLEAN :
          stack' = NegamaxEnters(stack, Last(stack), early, legal, hasCaptures)
    /\ UNCHANGED nonStackVars

\* lines 329-349: the call for the move with index i
NextMove ==
    /\ stack # << >>
    /\ Last(stack).fn = "negamax"
    /\ Last(stack).at = "loop"
    /\ LET f == Last(stack)
       IN  \E quiet \in BOOLEAN, givesCheck \in BOOLEAN :
              stack' =
                 IF f.i = 0
                 THEN Calls(stack, [f EXCEPT !.at = "wait", !.stage = "first"],
                            Node("negamax", f.depth - 1, f.recursionDepth + 1,
                                 f.ply + 1))
                 ELSE Calls(stack, [f EXCEPT !.at = "wait", !.stage = "reduced"],
                            Node("negamax",
                                 f.depth - 1 - Reduction(f.depth, f.i, quiet, givesCheck),
                                 f.recursionDepth + 1, f.ply + 1))
    /\ UNCHANGED nonStackVars

\* what negamax does when a call it made returns: lines 288, 319-321 and
\* 351-373. cutoff says whether the score ends the call, research whether
\* the score of a reduced search lies between alpha and beta
ResumeNegamax ==
    /\ stack # << >>
    /\ Last(stack).fn = "negamax"
    /\ Last(stack).at = "resume"
    /\ LET f == Last(stack)
       IN  \E cutoff \in BOOLEAN, research \in BOOLEAN :
              stack' =
                 IF f.stage = "tail" THEN Returns(stack)
                 ELSE IF f.stage = "nullmove"
                 THEN IF cutoff THEN Returns(stack)
                      ELSE Continues(stack, [f EXCEPT !.at = "loop", !.stage = "none"])
                 ELSE IF f.stage = "reduced" /\ research
                 THEN Calls(stack, [f EXCEPT !.at = "wait", !.stage = "full"],
                            Node("negamax", f.depth - 1, f.recursionDepth + 1,
                                 f.ply + 1))
                 ELSE IF cutoff THEN Returns(stack)
                 ELSE NextIteration(stack, f)
    /\ UNCHANGED nonStackVars

\* quiescenceSearch from line 398 to line 426. standPat says whether the
\* stand-pat score ends the call, captures is the number of captures
EnterQuiescence ==
    /\ stack # << >>
    /\ Last(stack).fn = "quiescence"
    /\ Last(stack).at = "entry"
    /\ LET f == Last(stack)
       IN  \E standPat \in BOOLEAN, captures \in CaptureCounts :
              stack' =
                 IF QuiescenceLeaf(f.depth, f.recursionDepth) THEN Returns(stack)
                 ELSE IF standPat THEN Returns(stack)
                 ELSE IF captures = 0 THEN Returns(stack)
                 ELSE Continues(stack, [f EXCEPT !.at = "loop", !.legal = captures])
    /\ UNCHANGED nonStackVars

\* lines 435-443: the capture with index i is skipped or searched
NextCapture ==
    /\ stack # << >>
    /\ Last(stack).fn = "quiescence"
    /\ Last(stack).at = "loop"
    /\ LET f == Last(stack)
       IN  \E losing \in BOOLEAN :
              stack' =
                 IF losing THEN NextIteration(stack, f)
                 ELSE Calls(stack, [f EXCEPT !.at = "wait", !.stage = "capture"],
                            Node("quiescence", f.depth - 1, f.recursionDepth + 1,
                                 f.ply))
    /\ UNCHANGED nonStackVars

\* lines 445-453: the score of a capture
ResumeQuiescence ==
    /\ stack # << >>
    /\ Last(stack).fn = "quiescence"
    /\ Last(stack).at = "resume"
    /\ \E cutoff \in BOOLEAN :
          stack' = IF cutoff THEN Returns(stack)
                   ELSE NextIteration(stack, Last(stack))
    /\ UNCHANGED nonStackVars

RecNext ==
    \/ EnterNegamax
    \/ NextMove
    \/ ResumeNegamax
    \/ EnterQuiescence
    \/ NextCapture
    \/ ResumeQuiescence

\* the search runs on one thread and nothing preempts it: a call that can
\* take its next step takes it
SpecRecursion == RecInit /\ [][RecNext]_vars /\ WF_vars(RecNext)

\* ------------------------------------------------------------------------
\* Properties of the move generator and of move application
\* ------------------------------------------------------------------------
\* the square k steps from sq in direction dir
Step(sq, dir, k) == << sq[1] + k * dir.dy, sq[2] + k * dir.dx >>

Valid(sq) == isValidSquare(sq[1], sq[2])

Steps == 1 .. BOARD_SIZE

DirIndex == 1 .. 4

\* the squares strictly between sq and the square k steps away are all empty
ClearUpTo(pcs, sq, dir, k) ==
    \A j \in 1 .. (k - 1) : Valid(Step(sq, dir, j)) /\ pcs[Step(sq, dir, j)] = NONE

\* the rules' notion of an available jump, stated on the grid alone
ManCanJump(pcs, sq, dir, player) ==
    /\ Valid(Step(sq, dir, 2))
    /\ isOpponentPiece(pcs[Step(sq, dir, 1)], player)
    /\ pcs[Step(sq, dir, 2)] = NONE

\* a king at sq has an enemy k steps away on a clear diagonal with an empty
\* square right behind it
KingCanJump(pcs, sq, dir, player, k) ==
    /\ Valid(Step(sq, dir, k + 1))
    /\ ClearUpTo(pcs, sq, dir, k)
    /\ isOpponentPiece(pcs[Step(sq, dir, k)], player)
    /\ pcs[Step(sq, dir, k + 1)] = NONE

HasJump(pcs, player) ==
    \E sq \in Squares : \E d \in DirIndex :
        /\ isPieceOfCurrentPlayer(pcs[sq], player)
        /\ IF IsKingPiece(pcs[sq])
           THEN \E k \in Steps : KingCanJump(pcs, sq, KING_MOVES[d], player, k)
           ELSE ManCanJump(pcs, sq, KING_MOVES[d], player)

\* C1: whenever a piece of the side to move has a jump available, generateMoves
\* returns a non-empty list and every move in it captures something
C1_MandatoryCapture ==
    (pc = "generated" /\ HasJump(pieces, currentPlayer)) =>
        /\ Len(moves) > 0
        /\ \A i \in 1 .. Len(moves) : Len(moves[i].captures) > 0

\* the number of entries of seqs that equal m
Occurrences(seqs, m) == Cardinality({ i \in 1 .. Len(seqs) : seqs[i] = m })

\* C2: when findCaptureSequences recorded anything, every returned move has the
\* largest recorded capture count, and every recorded sequence of that count is
\* returned (as often as it was recorded), and nothing else is returned
C2_MaximalCapture ==
    (pc = "generated" /\ Len(allCaptures) > 0) =>
        \E j \in 1 .. Len(allCaptures) :
            LET longest == Len(allCaptures[j].captures)
            IN  /\ \A k \in 1 .. Len(allCaptures) :
                       Len(allCaptures[k].captures) <= longest
                /\ \A i \in 1 .. Len(moves) :
                       /\ Len(moves[i].captures) = longest
                       /\ Occurrences(allCaptures, moves[i]) = Occurrences(moves, moves[i])
                /\ \A k \in 1 .. Len(allCaptures) :
                       Len(allCaptures[k].captures) = longest =>
                           Occurrences(moves, allCaptures[k]) >= 1

\* sequences of different lengths were recorded and several maximal ones returned
C2_Witness ==
    /\ pc = "generated"
    /\ Len(moves) >= 2
    /\ \E j \in 1 .. Len(allCaptures) :
           Len(allCaptures[j].captures) < Len(moves[1].captures)

\* the piece the claim expects on the destination square
PieceAfterMove(piece, to) ==
    IF piece = WHITE /\ to[1] = 0 THEN WHITE_KING
    ELSE IF piece = BLACK /\ to[1] = BOARD_SIZE - 1 THEN BLACK_KING
    ELSE piece

\* C3: makeMove of a generated move empties the source and every captured
\* square, puts the moved piece (promoted on its farthest row) on the
\* destination, leaves every other square alone and flips the side to move
C3_MoveApplication ==
    pc = "moved" =>
        /\ newPosition.pieces[move.from] = NONE
        /\ \A i \in 1 .. Len(move.captures) : newPosition.pieces[move.captures[i]] = NONE
        /\ newPosition.pieces[move.to] = PieceAfterMove(pieces[move.from], move.to)
        /\ \A sq \in Squares :
               (sq # move.from /\ sq # move.to /\ ~InSeq(sq, move.captures)) =>
                   newPosition.pieces[sq] = pieces[sq]
        /\ newPosition.currentPlayer # currentPlayer
        /\ newPosition.currentPlayer \in {PLAYER_WHITE, PLAYER_BLACK}

\* C4: no operation that is handed the position changes its grid or its side
\* to move
C4_PositionReadOnly ==
    [][pieces' = pieces /\ currentPlayer' = currentPlayer]_vars

\* the number of jumps findCaptureSequences makes from sq over victim onto land
JumpCount(pcs, sq, player, victim, land) ==
    LET jumps == Jumps(pcs, sq, << >>, player)
    IN  Cardinality({ i \in 1 .. Len(jumps) :
                        jumps[i].enemy = victim /\ jumps[i].land = land })

PiecesOf(pcs, player) == { sq \in Squares : isPieceOfCurrentPlayer(pcs[sq], player) }

AllWindows == AlphaBeta \X AlphaBeta

\* the entry may end a node at this depth and window
CutoffAllowed(e, depth, alpha, beta) ==
    /\ e.depth >= depth
    /\ \/ e.type = EXACT
       \/ (e.type = LOWER_BOUND /\ e.value >= beta)
       \/ (e.type = UPPER_BOUND /\ e.value <= alpha)

SameResult(e1, e2) ==
    /\ e1.depth = e2.depth
    /\ e1.value = e2.value
    /\ e1.type = e2.type
    /\ e1.bestMove = e2.bestMove

Usable(result) == ~result.isNull /\ result.useful # "false"

\* C6: on a table with no entry for key, after store(key, d, V, EXACT, M) a
\* lookup(key, d, alpha, beta) returns, for every alpha and beta, an entry not
\* flagged useful:false with value V and bestMove M, and
\* lookup(key, d + 1, alpha, beta) returns no usable entry.
C6_RoundTrip ==
    \A key \in Keys, d \in Depths, V \in Scores, M \in BestMoves :
        ~HasKey(table, key) =>
            LET s == store(table, accessCount, maxSize, key, d, V, EXACT, M)
            IN  \A w \in AllWindows :
                    LET same == lookup(s.table, s.accessCount, key, d, w[1], w[2]).result
                        deeper == lookup(s.table, s.accessCount, key, d + 1, w[1], w[2]).result
                    IN  /\ Usable(same)
                        /\ same.entry.value = V
                        /\ same.entry.bestMove = M
                        /\ ~Usable(deeper)

\* an EXACT result was stored for an absent key of an empty table and the
\* probe that followed ended its node with the stored value
C6_Witness ==
    /\ ret.op = "negamax"
    /\ ret.outcome = "cutoff"
    /\ Len(table) = 1
    /\ accessCount = 2
    /\ table[1].type = EXACT
    /\ table[1].depth = MaxDepth
    /\ ret.value = table[1].value
    /\ ret.result.entry.bestMove = table[1].bestMove

\* C7: negamax returns a table value without searching only if the stored
\* depth is at least the node's remaining depth and the entry is EXACT, or
\* LOWER_BOUND with value >= beta, or UPPER_BOUND with value <= alpha; in every
\* other case lookup yields null or an entry flagged useful:false and the node
\* is searched.
C7_CutoffTrust ==
    \A key \in Keys, depth \in 1 .. (MaxDepth + 1), w \in AllWindows :
        LET node == NegamaxProbe(table, accessCount, key, depth, w[1], w[2])
            found == lookup(table, accessCount, key, depth, w[1], w[2]).result
            trusted == /\ HasKey(table, key)
                       /\ CutoffAllowed(EntryOf(table, key), depth, w[1], w[2])
        IN  /\ node.outcome = "cutoff" =>
                    (trusted /\ node.value = EntryOf(table, key).value)
            /\ ~trusted =>
                    /\ (found.isNull \/ found.useful = "false")
                    /\ node.outcome = "search"

\* a node ended on a LOWER_BOUND entry whose value reaches beta
C7_Witness ==
    /\ ret.op = "negamax"
    /\ ret.outcome = "cutoff"
    /\ ret.result.entry.type = LOWER_BOUND
    /\ ret.value = MaxScore

\* C8 as stated: whenever the table holds an entry for key that does not
\* qualify for a cutoff (stored depth below minDepth, or bound type not
\* consistent with alpha/beta), lookup returns the entry flagged useful:false
\* with its bestMove.
C8_AlwaysFlagged ==
    \A key \in Keys, minDepth \in 0 .. (MaxDepth + 1), w \in AllWindows :
        (HasKey(table, key)
            /\ ~CutoffAllowed(EntryOf(table, key), minDepth, w[1], w[2])) =>
            LET found == lookup(table, accessCount, key, minDepth, w[1], w[2]).result
            IN  /\ ~found.isNull
                /\ found.useful = "false"
                /\ found.entry.bestMove = EntryOf(table, key).bestMove

\* C8: when the table holds an entry for key whose depth is at least minDepth
\* and whose bound type is not consistent with alpha/beta, lookup returns the
\* entry flagged useful:false with its bestMove; when the stored depth is
\* below minDepth, lookup returns null and leaves the table as it was.
C8_FlaggedWhenDeepEnough ==
    \A key \in Keys, minDepth \in 0 .. (MaxDepth + 1), w \in AllWindows :
        HasKey(table, key) =>
            LET e == EntryOf(table, key)
                r == lookup(table, accessCount, key, minDepth, w[1], w[2])
            IN  /\ (e.depth >= minDepth /\ ~CutoffAllowed(e, minDepth, w[1], w[2])) =>
                        /\ ~r.result.isNull
                        /\ r.result.useful = "false"
                        /\ SameResult(r.result.entry, e)
                /\ e.depth < minDepth =>
                        /\ r.result.isNull
                        /\ r.table = table
                        /\ r.accessCount = accessCount

\* a probe got back an entry flagged useful:false that carries a best move
C8_Witness ==
    /\ ret.op = "negamax"
    /\ ~ret.result.isNull
    /\ ret.result.useful = "false"
    /\ ret.result.entry.bestMove # 0
    /\ ret.outcome = "search"

\* the condition under which store may overwrite the entry e
MayOverwrite(e, d, type) == d > e.depth \/ (d = e.depth /\ type = EXACT)

\* C9 as stated: store(key, d, v, type, move) overwrites an existing entry for
\* key only if d is greater than the stored depth, or equal to it with type
\* EXACT; otherwise the entry's depth, value, type and bestMove are unchanged.
C9_ReplacementOfStoredEntry ==
    \A key \in Keys, d \in Depths, v \in Scores, type \in EntryTypes, m \in BestMoves :
        (HasKey(table, key) /\ ~MayOverwrite(EntryOf(table, key), d, type)) =>
            LET s == store(table, accessCount, maxSize, key, d, v, type, m)
            IN  /\ HasKey(s.table, key)
                /\ SameResult(EntryOf(s.table, key), EntryOf(table, key))

\* C9: when the entry for key is still in the table after the cleanup that
\* store runs at capacity, store(key, d, v, type, move) overwrites it only if
\* d is greater than the stored depth, or equal to it with type EXACT;
\* otherwise its depth, value, type and bestMove are unchanged, so the stored
\* depth does not decrease. When that cleanup evicts the entry, store writes
\* the new result whatever its depth.
C9_ReplacementAfterCleanup ==
    LET kept == IF Len(table) >= maxSize THEN cleanup(table) ELSE table
    IN  \A key \in Keys :
            HasKey(table, key) =>
                \A d \in Depths, v \in Scores, type \in EntryTypes, m \in BestMoves :
                    LET s == store(table, accessCount, maxSize, key, d, v, type, m)
                        new == EntryOf(s.table, key)
                        written == [depth |-> d, value |-> v, type |-> type,
                                    bestMove |-> m]
                    IN  IF HasKey(kept, key)
                        THEN /\ new.depth >= EntryOf(kept, key).depth
                             /\ IF MayOverwrite(EntryOf(kept, key), d, type)
                                THEN SameResult(new, written)
                                ELSE SameResult(new, EntryOf(kept, key))
                        ELSE SameResult(new, written)

\* two results were written for the one key of the table, the second over the
\* first
C9_Witness ==
    /\ ret = NoReturn
    /\ Len(table) = 1
    /\ accessCount = 2
    /\ table[1].accessTime = 1
    /\ table[1].depth = MaxDepth
    /\ table[1].type # EXACT

\* the rank of cleanup, times 1000
Rank(e) == e.accessTime + e.depth * 10000 - e.age * 5000

\* C10: a cleanup of a table with n entries removes exactly floor(0.3 * n)
\* entries; every removed entry has a rank accessTime/1000 + depth*10 - age*5
\* no greater than the rank of every surviving entry; every surviving entry's
\* age is one more than before the cleanup.
C10_Eviction ==
    LET after == cleanup(table)
        n == Len(table)
        removed == n - Len(after)
    IN  /\ 10 * removed <= 3 * n
        /\ 3 * n < 10 * (removed + 1)
        /\ \A i \in 1 .. Len(after) : HasKey(table, after[i].key)
        /\ \A i \in 1 .. n :
               IF HasKey(after, table[i].key)
               THEN /\ EntryOf(after, table[i].key).age = table[i].age + 1
                    /\ SameResult(EntryOf(after, table[i].key), table[i])
                    /\ EntryOf(after, table[i].key).accessTime = table[i].accessTime
               ELSE \A j \in 1 .. n :
                        HasKey(after, table[j].key) => Rank(table[i]) <= Rank(table[j])

\* a cleanup of four entries evicted the search key's entry and aged the
\* three that remain
C10_Witness ==
    /\ ret = NoReturn
    /\ Len(table) = 3
    /\ accessCount = 4
    /\ \A key \in SearchKeys : ~HasKey(table, key)
    /\ \A i \in 1 .. Len(table) : table[i].age = 1

\* ------------------------------------------------------------------------
\* Move safety
\* ------------------------------------------------------------------------
\* the opponent's legal captures that take the piece standing on sq
RepliesOnto(pcs, opponent, sq) ==
    LET Hits(r) == CapturesSquare(r, sq)
    IN  SelectSeq(getAvailableCaptures(pcs, opponent), Hits)

\* m captures one piece, the opponent has exactly one recapture of the piece
\* on m.to, made by a piece worth what was captured and taking nothing else,
\* and after it the mover cannot take the recapturing piece
EvenTrade(pcs, player, m) ==
    /\ Len(m.captures) = 1
    /\ LET after == makeMove(pcs, player, m).pieces
           replies == RepliesOnto(after, Opponent(player), m.to)
       IN  /\ Len(replies) = 1
           /\ Len(replies[1].captures) = 1
           /\ getPieceValue(after[replies[1].from]) = getPieceValue(pcs[m.captures[1]])
           /\ LET after2 == makeMove(after, Opponent(player), replies[1]).pieces
              IN  RepliesOnto(after2, player, replies[1].to) = << >>

\* C11: staticExchangeEvaluation of an even trade (one piece captured, one
\* recapture onto the landing square by a piece of the captured piece's value,
\* nothing further) is the captured piece's value minus the capturing piece's
C11_EvenTrade ==
    (safety.op = "see" /\ EvenTrade(pieces, currentPlayer, move))
        => safety.see = getPieceValue(pieces[move.captures[1]])
                        - getPieceValue(pieces[move.from])

\* m is a quiet move after which the opponent can capture the moved piece on
\* m.to, no friendly piece stands next to it, and the mover has no capture at
\* all, neither at once nor after any of those captures
HangsPiece(pcs, player, m) ==
    /\ Len(m.captures) = 0
    /\ LET after == makeMove(pcs, player, m).pieces
           replies == RepliesOnto(after, Opponent(player), m.to)
       IN  /\ Len(replies) > 0
           /\ \A d \in 1 .. Len(KING_MOVES) :
                 LET n == Neighbour(m.to, KING_MOVES[d])
                 IN  isValidSquare(n[1], n[2]) => ~isPlayerPiece(after[n], player)
           /\ getAvailableCaptures(after, player) = << >>
           /\ \A k \in 1 .. Len(replies) :
                 getAvailableCaptures(makeMove(after, Opponent(player), replies[k]).pieces,
                                      player) = << >>

\* C12: isMoveReallySafe is false for a quiet move that leaves the moved piece
\* capturable on its destination, unprotected, with no capture in return
C12_HangingPieceUnsafe ==
    (safety.op = "safe" /\ HangsPiece(pieces, currentPlayer, move))
        => safety.safe = FALSE

\* ------------------------------------------------------------------------
\* Properties of the search driver (ai.search)
\* ------------------------------------------------------------------------
\* the side to move has a move under the rules: a jump or a step
HasLegalMove(pcs, player) ==
    \/ HasJump(pcs, player)
    \/ Len(CollectNormalMoves(pcs, player, PlayerSquares(pcs, player), 1)) > 0

\* C13: getBestMove returns null exactly when the side to move has no legal
\* move, and when generateMoves lists exactly one move it returns that move
\* with nodeCount still 0 and the transposition table as it was (empty)
C13_DegenerateRoots ==
    returned.done =>
        /\ (returned.move = NoMove) <=> ~HasLegalMove(pieces, currentPlayer)
        /\ Len(moves) = 1 =>
              /\ returned.move = moves[1]
              /\ nodeCount = 0
              /\ Len(table) = 0

\* C14: when the side to move has a capture in the root position, the move
\* getBestMove returns, on whichever path it returns, captures something and
\* is one of the moves generateMoves lists for the position
C14_MandatoryCaptureEndToEnd ==
    returned.done /\ HasJump(pieces, currentPlayer) =>
        /\ returned.move # NoMove
        /\ Len(returned.move.captures) > 0
        /\ returned.move \in SeqToSet(generateMoves(pieces, currentPlayer))

\* C15: when getBestMove comes back from the iterative deepening (the root
\* has at least two moves and neither a forced capture nor a book move was
\* played), it returns a move of generateMoves' list, never null, whenever the
\* time ran out or the abort flag was set; and as long as no depth has
\* completed the move it holds as best is the first generated move
C15_BestEffort ==
    returned.done /\ returned.path = "search" =>
        /\ Len(moves) >= 2
        /\ returned.move # NoMove
        /\ returned.move \in SeqToSet(moves)
        /\ gbm.completed = 0 => gbm.bestMove = moves[1] /\ returned.move = moves[1]

\* a search that set the abort flag on its time check before depth 1 was
\* completed, after it had searched nodes, and returned the first move
C15_Witness ==
    /\ returned.done
    /\ returned.path = "search"
    /\ gbm.completed = 0
    /\ searchAborted
    /\ nodeCount > 0
    /\ clock = 2
    /\ returned.move = moves[1]

\* the negamax and quiescenceSearch calls that are running
NodeFrames(stk) ==
    Cardinality({ k \in 1 .. Len(stk) : stk[k].fn \in {"negamax", "quiescence"} })

\* C16: once searchAborted is true no running negamax or quiescenceSearch
\* call searches a further child position: no step adds a negamax or
\* quiescenceSearch call to those that are running
C16_CooperativeCancellation ==
    [][searchAborted => NodeFrames(stack') <= NodeFrames(stack)]_vars

\* C19: every negamax call on a position whose side to move has no legal
\* move returns -10000 + ply, whatever its remaining depth
C19_TerminalScoring ==
    \A k \in 1 .. Len(returns) :
        LET call == returns[k].frame
        IN  /\ call.fn = "negamax"
            /\ Len(generateMoves(call.pos.pieces, call.pos.currentPlayer)) = 0
            => returns[k].value = Points(-MATE + call.ply)

\* ------------------------------------------------------------------------
\* Properties of the size of the transposition table (ai.tt)
\* ------------------------------------------------------------------------
\* C29: a table created with capacity maxSize >= 1 never holds more than
\* maxSize entries
C29_TableSizeBound == Len(table) <= maxSize

\* ------------------------------------------------------------------------
\* Properties of the recursion of the search
\* ------------------------------------------------------------------------
\* the quiescenceSearch frames of the stack: they are its top, as
\* quiescenceSearch calls nothing but itself
QuiescenceChain ==
    Cardinality({ k \in 1 .. Len(stack) : stack[k].fn = "quiescence" })

RecursionDepthBounded ==
    \A k \in 1 .. Len(stack) :
       stack[k].fn = "negamax" => stack[k].recursionDepth <= maxRecursionDepth + 1

\* the call the recursion started from returns, and with it every call made
\* under it, each of which returns before its caller does
EveryCallReturns == (stack # << >>) ~> (stack = << >>)

\* C30 (as stated): every negamax call returns, no negamax frame has a
\* recursionDepth above maxRecursionDepth + 1 and a chain of quiescenceSearch
\* frames is at most quiescenceDepth frames long
C30_RecursionTerminates ==
    /\ EveryCallReturns
    /\ [](RecursionDepthBounded /\ QuiescenceChain <= QuiescenceDepth)

\* C30 (amended): every negamax call returns, no negamax frame has a
\* recursionDepth above maxRecursionDepth + 1 and a chain of quiescenceSearch
\* frames is at most quiescenceDepth + 1 frames long, the last of them being
\* the call with depth 0 that returns the evaluation; this with nodes of at
\* most three legal moves searched one deeper and null-move searches that
\* recurse without advancing ply
C30_RecursionTerminatesAmended ==
    /\ EveryCallReturns
    /\ [](RecursionDepthBounded /\ QuiescenceChain <= QuiescenceDepth + 1)

\* a node with at most three legal moves, searched one deeper, whose first
\* move is searched with the depth the node was called with; under it a
\* null-move search at the ply of its caller; on top a chain of
\* quiescenceDepth + 1 quiescenceSearch frames
C30_Witness ==
    /\ QuiescenceChain = QuiescenceDepth + 1
    /\ \E k \in 1 .. Len(stack) - 1 :
          /\ stack[k].fn = "negamax"
          /\ stack[k].extended
          /\ stack[k].legal <= 3
          /\ stack[k].stage = "first"
          /\ stack[k + 1].fn = "negamax"
          /\ stack[k + 1].depth = stack[k].depth - 1
    /\ \E k \in 1 .. Len(stack) - 1 :
          /\ stack[k].stage = "nullmove"
          /\ stack[k + 1].fn = "negamax"
          /\ stack[k + 1].ply = stack[k].ply
          /\ stack[k + 1].recursionDepth = stack[k].recursionDepth + 1

\* ------------------------------------------------------------------------
\* Properties of the search (ai.search)
\* ------------------------------------------------------------------------
\* the negamax calls that returned in the last step after their loop over the
\* moves, with their locals as the store of line 380 found them
Finished == { r.frame : r \in { returns[k] : k \in 1 .. Len(returns) } }

Stored == { f \in Finished : f.fn = "negamax" /\ f.at = "loop" }

\* C22: the entry negamax stores for a node entered with window (alpha0, beta)
\* is LOWER_BOUND if bestScore >= beta, UPPER_BOUND if bestScore <= alpha0 and
\* EXACT if alpha0 < bestScore < beta
C22_BoundType ==
    \A f \in Stored :
        BoundType(f.bestScore, f.alpha, f.beta) =
            IF f.bestScore >= f.beta THEN LOWER_BOUND
            ELSE IF f.bestScore <= f.alpha0 THEN UPPER_BOUND ELSE EXACT

\* C23: the clock is read at least once in every CheckPeriod consecutive
\* visited nodes: the nodes visited since the last read of Date.now() are
\* always fewer than CheckPeriod
C23_PeriodicTimeCheck == unread < CheckPeriod

EndedByTimeout ==
    \/ spc = "awaited" /\ gbm.result.timeout
    \/ spc = "reawaited" /\ (gbm.result.timeout \/ clock = 2 \/ searchAborted)

EqualMobilityScore(pcs, player, theirMoves, whiteCaptures, blackCaptures, whiteMoves, blackMoves) ==
    WeightedScore(pcs, player, evaluateMobilityDifferential(theirMoves, theirMoves),
                  whiteCaptures, blackCaptures, whiteMoves, blackMoves)

MoreMobile(pcs, player) ==
    Len(generateMoves(pcs, player)) > Len(generateMoves(pcs, Opponent(player)))

BothSides(pcs) ==
    /\ \E sq \in Squares : isPlayerPiece(pcs[sq], PLAYER_WHITE)
    /\ \E sq \in Squares : isPlayerPiece(pcs[sq], PLAYER_BLACK)

\* C27: whichever side is to move, the score evaluatePosition returns is not
\* lower for the side to move having more legal moves than its opponent
C27_MobilityPerspective ==
    (/\ evaluated.last.called
     /\ evaluated.last.pos = [pieces |-> pieces, currentPlayer |-> currentPlayer]
     /\ BothSides(pieces)
     /\ MoreMobile(pieces, currentPlayer))
    => evaluated.last.score >=
          EqualMobilityScore(pieces, currentPlayer,
                             Len(generateMoves(pieces, Opponent(currentPlayer))),
                             getAvailableCaptures(pieces, PLAYER_WHITE),
                             getAvailableCaptures(pieces, PLAYER_BLACK),
                             generateMoves(pieces, PLAYER_WHITE),
                             generateMoves(pieces, PLAYER_BLACK))

\* ------------------------------------------------------------------------
\* Properties of the killer moves and the history table (ai.move-ordering)
\* ------------------------------------------------------------------------
\* the table the claim describes after updateHistory(m, depth): every entry
\* halved first when any entry is above 10000, then depth * depth added to
\* the entry of m
AgedThenAdded(m, depth, history) ==
    LET key == getMoveKey(m)
        aging == \E h \in history : h.score > 10000
        Old(s) == IF aging THEN s \div 2 ELSE s
    IN  { [key |-> h.key, score |-> Old(h.score)] : h \in { g \in history : g.key # key } }
        \cup {[key |-> key, score |-> Old(HistoryScore(history, key)) + depth * depth]}

\* C25: updateHistory(move, depth) halves every entry, the one of move
\* included, before it adds depth * depth when any entry is above 10000, and
\* adds depth * depth to the entry of move alone otherwise; no score is ever
\* above 10000 + depth * depth
C25_HistoryAging ==
    [][\A m \in HistoryMoves :
          historyTable' = updateHistory(m, HistoryDepth, historyTable) =>
             /\ historyTable' = AgedThenAdded(m, HistoryDepth, historyTable)
             /\ \A h \in historyTable' :
                   h.score <= 10000 + HistoryDepth * HistoryDepth]_vars

\* what the claim makes of the two slots of a ply after a cutoff by move m
KillersAfter(m, slots) ==
    IF Len(m.captures) > 0 \/ isSameMove(m, slots[1]) THEN slots
    ELSE << m, slots[1] >>

\* C26: no killer slot holds a capture, the two slots of a ply never hold the
\* same move, and a cutoff by a quiet move that is not in slot 0 puts it there
\* and the move of slot 0 in slot 1, while a cutoff by the move of slot 0 (or
\* by a capture) changes nothing
C26_KillerTable ==
    [][/\ \A ply \in DOMAIN killerMoves' :
             /\ Len(killerMoves'[ply][1].captures) = 0
             /\ Len(killerMoves'[ply][2].captures) = 0
             /\ ~isSameMove(killerMoves'[ply][1], killerMoves'[ply][2])
       /\ LET ply == IF nodeCount' # nodeCount THEN CutoffPly ELSE 0
          IN  killerMoves' = [killerMoves EXCEPT ![ply] = KillersAfter(move', @)]]_vars

\* both slots of a ply are filled, and the last cutoff was by the move that
\* was in slot 0 already
C26_Witness ==
    /\ killerMoves[CutoffPly][1] # NoMove
    /\ killerMoves[CutoffPly][2] # NoMove
    /\ killerMoves[0][2] # NoMove
    /\ isSameMove(move, killerMoves[CutoffPly][1])
    /\ nodeCount = MaxCutoffs

\* ------------------------------------------------------------------------
\* Properties of the time limit (ai.search)
\* ------------------------------------------------------------------------
\* C21: at every point of a getBestMove call the time limit in effect in the
\* deepening loop is at most three times TIME_ALLOCATION[level]
C21_TimeCap ==
    timing.at \in {"deepening", "done"} =>
        timing.timeLimit <= 3 * Milliseconds(TIME_ALLOCATION[timing.level])

\* ------------------------------------------------------------------------
\* Properties of the evaluation (ai.evaluation)
\* ------------------------------------------------------------------------
\* the positions evaluated so far and the position analysed with either side
\* to move; their pieces stand on dark squares
KnownPositions ==
    { Position(c.pieces, c.currentPlayer, << >>) : c \in evaluated.seen }
    \cup { Position(pieces, player, << >>) : player \in {PLAYER_WHITE, PLAYER_BLACK} }

\* C20: on positions whose pieces stand on dark squares the memo of
\* evaluatePosition is transparent: all calls on one position return one
\* score, whether the memo held the position or had been cleared together
\* with the transposition table in between; every call returns what
\* evaluatePosition computes with an empty memo; and every score the memo
\* holds under a key is what evaluatePosition computes with an empty memo for
\* any position that has that key
C20_EvaluationMemoTransparent ==
    /\ \A a, b \in evaluated.seen :
          a.pieces = b.pieces /\ a.currentPlayer = b.currentPlayer => a.score = b.score
    /\ evaluated.last.called =>
          evaluated.last.score =
              evaluatePosition({}, Position(evaluated.last.pos.pieces,
                                            evaluated.last.pos.currentPlayer, << >>)).score
    /\ \A p \in evalCache : \A pos \in KnownPositions :
          generateKey(pos) = p.key => p.score = evaluatePosition({}, pos).score

\* a call answered from the memo while the memo holds one grid under two
\* keys, one for either side to move, with different scores
C20_Witness ==
    /\ evaluated.last.called
    /\ evaluated.last.hit
    /\ \E p, q \in evalCache :
          /\ p.key.pieces = q.key.pieces
          /\ p.key.currentPlayer # q.key.currentPlayer
          /\ p.score # q.score

\* ------------------------------------------------------------------------
\* Properties of the worker (ai.core)
\* ------------------------------------------------------------------------
\* C17: at the first search of every move request, before a node is visited,
\* nodeCount is 0, searchAborted is false, positionHistory is empty and both
\* killer slots of every ply are empty, whatever the request found
C17_CleanSearchContext ==
    firstNode.seen =>
        /\ firstNode.context.nodeCount = 0
        /\ ~firstNode.context.searchAborted
        /\ firstNode.context.positionHistory = << >>
        /\ \A ply \in 0 .. KILLER_PLIES - 1 :
              firstNode.context.killerMoves[ply] = << NoMove, NoMove >>

\* a request that found the node count, the abort flag and a killer move of
\* an earlier search, after an earlier request was answered
C17_Witness ==
    /\ firstNode.seen
    /\ firstNode.found.nodeCount > 0
    /\ firstNode.found.searchAborted
    /\ firstNode.found.killerMoves[0][1] # NoMove
    /\ firstNode.found.statistics.totalNodes > 0
    /\ firstNode.context.nodeCount = 0
    /\ firstNode.context.killerMoves = NoKillers

\* C18: at most one getBestMove call has begun and not returned, and neither
\* the start of a getBestMove (with its resets) nor a clearing of the caches
\* happens while one is in that state
C18_SearchesNeverOverlap ==
    /\ active <= 1
    /\ event.kind \in {"begin", "clear"} => event.active = 0

\* a getBestMove call waits for its search while a 'getMove' or a
\* 'setDifficulty' message is in the queue of the worker
C18_Witness ==
    /\ active = 1
    /\ microtasks # << >>
    /\ Head(microtasks).fn = "getBestMove"
    /\ inbox # << >>
    /\ Head(inbox) \in {"getMove", "setDifficulty"}

====
